---- MODULE Spec2Model ----
(***************************************************************************)
(* Verification model of the R-BD catalog front end:                       *)
(*   - TemplateManager.matchPattern and its helpers (template-manager.js)  *)
(*   - the ICD library page: groupByIcdId, getActiveVersion and the        *)
(*     pattern link modal (icd-manager.js, first script)                   *)
(*   - the IED/ICD page: getIcdsForPattern, getOrphanIcds and the link,    *)
(*     unlink, move and assign handlers (icd-manager.js, second script)    *)
(*                                                                         *)
(* A JavaScript string is modelled as a sequence of one-character strings, *)
(* so that splitting, prefix tests, substring tests and concatenation are  *)
(* computed character by character.                                        *)
(***************************************************************************)
EXTENDS Integers, Sequences, FiniteSets, TLC

VARIABLES
    mValue,      \* pure function under call: its `value` (or only) argument
    mPattern,    \* pure function under call: its `pattern` argument
    mCalled,     \* TRUE once the function has returned for (mValue, mPattern)
    mResult,     \* the value the function returned
    mFunction,   \* the name of the function under call
    icdCatalog,  \* the page's copy of the ICD catalog (array of entries)
    filterType,          \* value of the #filter-ied-type select
    filterManufacturer,  \* value of the #filter-manufacturer select
    icdCards,    \* the cards renderIcdCards last put in #icd-cards
    versionChoice,  \* the option last chosen in a card's "Version active" select
    page,        \* the page loaded in the browser tab: "library" or "ied"
    iedPatterns, \* the page's copy of the IED patterns (array of patterns)
    pendingPatternForUpload,  \* target pattern of a direct import, "" if none
    modal,       \* the modal dialog on screen, [kind |-> "none"] if none
    filterLinked,  \* value of the #filter-linked select of the IED / ICD page
    iedCards,    \* the cards renderIedCards last put in #ied-cards
    orphanIcds,  \* the cards renderOrphanIcds last put in #orphan-icds
    srvRefs,     \* pattern store of the API: icd_refs of every pattern
    srvCatalog,  \* ICD index of the API: the imported entries
    tasks,       \* the async handlers that have started and not yet returned
    isaTypes,    \* ISA page: the ISA types loaded from the API
    isaCatalog,  \* ISA page: the imported ISA files loaded from the API
    pendingTypeForUpload,  \* ISA page: target type of a direct import, "" if none
    isaView,     \* ISA page: what the three render calls last put on screen
    templates,   \* TemplateManager.templates: the array, as references to objects
    objects,     \* the template objects by reference: their properties
    now,         \* the value of Date.now()
    stores,      \* localStorage: the array under tests_${type}, for every type
    currentTest, \* test editor: the test under edit
    isEditing,   \* test editor: a stored test was loaded
    selectedType,  \* test editor: the type the editor works on
    originalType,  \* test editor: the type the test was loaded from
    form,        \* test editor: the inputs and selects of the page
    icdDetailsCache  \* test editor: the ICD details fetched so far, by icd_id

matchVars == <<mValue, mPattern, mCalled, mResult, mFunction>>

libraryVars == <<icdCatalog, filterType, filterManufacturer, icdCards, versionChoice>>

linkVars == <<page, iedPatterns, pendingPatternForUpload, modal, filterLinked,
              iedCards, orphanIcds, srvRefs, srvCatalog>>

vars == <<mValue, mPattern, mCalled, mResult, mFunction,
          icdCatalog, filterType, filterManufacturer, icdCards, versionChoice,
          page, iedPatterns, pendingPatternForUpload, modal, filterLinked,
          iedCards, orphanIcds, srvRefs, srvCatalog, tasks,
          isaTypes, isaCatalog, pendingTypeForUpload, isaView,
          templates, objects, now,
          stores, currentTest, isEditing, selectedType, originalType, form,
          icdDetailsCache>>

isaVars == <<isaTypes, isaCatalog, pendingTypeForUpload, isaView>>

templateVars == <<templates, objects, now>>

editorVars == <<stores, currentTest, isEditing, selectedType, originalType, form,
                icdDetailsCache>>

\* the state of the pages other than the two ICD pages
pagesVars == <<isaVars, templateVars, editorVars>>

\* the state that only the specifications of interleaved handlers and of
\* the other pages use
otherVars == <<tasks, pagesVars>>

\* the ISA page is not loaded
NoIsaPage ==
    /\ isaTypes = <<>>
    /\ isaCatalog = <<>>
    /\ pendingTypeForUpload = ""
    /\ isaView = [cards |-> <<>>, orphans |-> <<>>, linkedCount |-> 0]

\* no TemplateManager is constructed
NoTemplateManager ==
    /\ templates = <<>>
    /\ objects = <<>>
    /\ now = 0

\* the test editor is not loaded
NoEditor ==
    /\ stores = <<>>
    /\ currentTest = <<>>
    /\ isEditing = FALSE
    /\ selectedType = ""
    /\ originalType = ""
    /\ form = <<>>
    /\ icdDetailsCache = {}

\* none of the other pages is loaded
NoOtherPage ==
    /\ NoIsaPage
    /\ NoTemplateManager
    /\ NoEditor

\* no handler is running, no other page is loaded
OtherPagesIdle ==
    /\ tasks = <<>>
    /\ NoOtherPage

(***************************************************************************)
(* Strings                                                                 *)
(***************************************************************************)

\* null / undefined: a value that is no string of any alphabet used here
NULL == <<"<null>">>

\* Boolean(v) of a string-or-null value: null and "" are falsy
Truthy(v) == v # NULL /\ v # <<>>

\* String(value || '')
StringOrEmpty(v) == IF Truthy(v) THEN v ELSE <<>>

\* obj[field]: reading a property the object does not have gives undefined
Get(obj, field) == IF field \in DOMAIN obj THEN obj[field] ELSE NULL

\* `${v}` in a template literal: undefined is written "undefined"
TemplateText(v) ==
    IF v = NULL THEN <<"u", "n", "d", "e", "f", "i", "n", "e", "d">> ELSE v

Range(s) == {s[i] : i \in 1..Len(s)}

\* all strings over alphabet A of length at most n
StringsUpTo(A, n) == UNION {[1..k -> A] : k \in 0..n}

\* the concatenation of a sequence of sequences (Array.prototype.flat)
RECURSIVE Flatten(_)
Flatten(ss) == IF ss = <<>> THEN <<>> ELSE Head(ss) \o Flatten(Tail(ss))

Digits == <<"0", "1", "2", "3", "4", "5", "6", "7", "8", "9">>

IsDigit(c) == \E d \in 1..10 : Digits[d] = c

DigitVal(c) == (CHOOSE d \in 1..10 : Digits[d] = c) - 1

\* Number(s) for a string of decimal digits
RECURSIVE Number(_)
Number(s) ==
    IF s = <<>> THEN 0
    ELSE 10 * Number(SubSeq(s, 1, Len(s) - 1)) + DigitVal(s[Len(s)])

\* `${i}` for an integer i >= 0: decimal digits without leading zeros
RECURSIVE NumToString(_)
NumToString(n) ==
    IF n < 10 THEN <<Digits[n + 1]>>
    ELSE Append(NumToString(n \div 10), Digits[(n % 10) + 1])

LowerCase == <<"a", "b", "c", "d", "e", "f", "g", "h", "i", "j", "k", "l", "m",
               "n", "o", "p", "q", "r", "s", "t", "u", "v", "w", "x", "y", "z">>

UpperCase == <<"A", "B", "C", "D", "E", "F", "G", "H", "I", "J", "K", "L", "M",
               "N", "O", "P", "Q", "R", "S", "T", "U", "V", "W", "X", "Y", "Z">>

\* the canonical form a case-insensitive RegExp compares characters by
Canonicalize(c) ==
    IF \E k \in 1..26 : LowerCase[k] = c
    THEN UpperCase[CHOOSE k \in 1..26 : LowerCase[k] = c]
    ELSE c

\* the characters RegExp `.` does not match (no `s` flag)
LineTerminators == {"\n", "\r"}

(***************************************************************************)
(* TemplateManager: matchPattern and helpers                               *)
(***************************************************************************)

\* the separator class of split(/[,;\s]+/)
Separators == {",", ";", " ", "\t", "\n", "\r"}

\* String(pattern).split(/[,;\s]+/).map(trim).filter(Boolean):
\* the maximal runs of non-separator characters, in order
RECURSIVE SplitTokens(_, _, _)
SplitTokens(s, i, cur) ==
    IF i > Len(s) THEN (IF cur = <<>> THEN <<>> ELSE <<cur>>)
    ELSE IF s[i] \in Separators
         THEN (IF cur = <<>> THEN <<>> ELSE <<cur>>) \o SplitTokens(s, i + 1, <<>>)
         ELSE SplitTokens(s, i + 1, Append(cur, s[i]))

\* end of the maximal run of digits that starts at position i (i - 1 if none)
RECURSIVE DigitRunEnd(_, _)
DigitRunEnd(s, i) ==
    IF i <= Len(s) /\ IsDigit(s[i]) THEN DigitRunEnd(s, i + 1) ELSE i - 1

\* positions i at which (\d+)-(\d+) can start: digits from i up to a '-'
\* that is itself followed by a digit
RangeStarts(s) ==
    {i \in 1..Len(s) :
        LET e == DigitRunEnd(s, i)
        IN  /\ e >= i
            /\ e + 2 <= Len(s)
            /\ s[e + 1] = "-"
            /\ IsDigit(s[e + 2])}

\* expandRangePattern with the loop always stepping upwards: a descending
\* range yields no literal
expandRangePattern_AscendingOnly(pattern) ==
    IF RangeStarts(pattern) = {} THEN <<pattern>>
    ELSE
        LET i        == CHOOSE k \in RangeStarts(pattern) : \A l \in RangeStarts(pattern) : k <= l
            dash     == DigitRunEnd(pattern, i) + 1
            last     == DigitRunEnd(pattern, dash + 1)
            prefix   == SubSeq(pattern, 1, i - 1)
            startNum == Number(SubSeq(pattern, i, dash - 1))
            endNum   == Number(SubSeq(pattern, dash + 1, last))
            suffix   == SubSeq(pattern, last + 1, Len(pattern))
        IN  IF startNum <= endNum
            THEN [k \in 1..(endNum - startNum + 1) |-> prefix \o NumToString(startNum + k - 1) \o suffix]
            ELSE <<>>

\* expandRangePattern(pattern): /^(.*?)(\d+)-(\d+)(.*?)$/ takes the leftmost
\* start (lazy prefix), the digits up to the '-', the longest run of digits
\* after it (greedy) and the rest as suffix
expandRangePattern(pattern) ==
    IF RangeStarts(pattern) = {} THEN <<pattern>>
    ELSE
        LET i        == CHOOSE k \in RangeStarts(pattern) :
                            \A l \in RangeStarts(pattern) : k <= l
            dash     == DigitRunEnd(pattern, i) + 1
            last     == DigitRunEnd(pattern, dash + 1)
            prefix   == SubSeq(pattern, 1, i - 1)
            startNum == Number(SubSeq(pattern, i, dash - 1))
            endNum   == Number(SubSeq(pattern, dash + 1, last))
            suffix   == SubSeq(pattern, last + 1, Len(pattern))
        IN  IF startNum <= endNum
            THEN [k \in 1..(endNum - startNum + 1) |->
                     prefix \o NumToString(startNum + k - 1) \o suffix]
            ELSE [k \in 1..(startNum - endNum + 1) |->
                     prefix \o NumToString(startNum - k + 1) \o suffix]

\* one token of expandPatternList: exclusion mark, strip, range expansion
expandToken(item) ==
    LET exclude  == Len(item) > 0 /\ (item[1] = "!" \/ item[1] = "-")
        cleaned  == IF exclude THEN Tail(item) ELSE item
        expanded == expandRangePattern(cleaned)
    IN  [k \in 1..Len(expanded) |-> [pattern |-> expanded[k], exclude |-> exclude]]

\* expandPatternList(pattern)
expandPatternList(pattern) ==
    LET raw == SplitTokens(pattern, 1, <<>>)
    IN  Flatten([k \in 1..Len(raw) |-> expandToken(raw[k])])

\* the regular expression matchSinglePattern builds, as a sequence of atoms:
\* the escaped metacharacters and every other character stay literals,
\* '*' becomes ".*" (anyrun) and '?' becomes "." (any)
GlobToRegex(pattern) ==
    [k \in 1..Len(pattern) |->
        IF pattern[k] = "*" THEN [kind |-> "anyrun", ch |-> "*"]
        ELSE IF pattern[k] = "?" THEN [kind |-> "any", ch |-> "?"]
        ELSE [kind |-> "lit", ch |-> pattern[k]]]

\* new RegExp("^...$", "i").test(v), from atom i of re and character j of v
RECURSIVE RegexTest(_, _, _, _)
RegexTest(re, i, v, j) ==
    IF i > Len(re) THEN j > Len(v)
    ELSE IF re[i].kind = "anyrun"
         THEN \/ RegexTest(re, i + 1, v, j)
              \/ /\ j <= Len(v)
                 /\ v[j] \notin LineTerminators
                 /\ RegexTest(re, i, v, j + 1)
    ELSE IF re[i].kind = "any"
         THEN /\ j <= Len(v)
              /\ v[j] \notin LineTerminators
              /\ RegexTest(re, i + 1, v, j + 1)
    ELSE /\ j <= Len(v)
         /\ Canonicalize(re[i].ch) = Canonicalize(v[j])
         /\ RegexTest(re, i + 1, v, j + 1)

\* matchSinglePattern without the closing anchor: the pattern has only to
\* match the beginning of the value
matchSinglePattern_Unanchored(value, pattern) ==
    IF ~Truthy(pattern) \/ pattern = <<"*">> THEN TRUE
    ELSE RegexTest(GlobToRegex(Append(pattern, "*")), 1, StringOrEmpty(value), 1)

\* matchSinglePattern(value, pattern)
matchSinglePattern(value, pattern) ==
    IF ~Truthy(pattern) \/ pattern = <<"*">> THEN TRUE
    ELSE RegexTest(GlobToRegex(pattern), 1, StringOrEmpty(value), 1)

\* the include / exclude terms of an expanded pattern list
IncludeTerms(patterns) == {patterns[k].pattern : k \in {n \in 1..Len(patterns) : ~patterns[n].exclude}}

ExcludeTerms(patterns) == {patterns[k].pattern : k \in {n \in 1..Len(patterns) : patterns[n].exclude}}

\* matchPattern with a guard on an empty value placed first
matchPattern_EmptyValueRejected(value, pattern) ==
    IF ~Truthy(value) THEN FALSE
    ELSE IF ~Truthy(pattern) \/ pattern = <<"*">> THEN TRUE
    ELSE
        LET safeValue == StringOrEmpty(value)
            patterns  == expandPatternList(pattern)
        IN  IF Len(patterns) = 0 THEN TRUE
            ELSE IF \E t \in ExcludeTerms(patterns) : matchSinglePattern(safeValue, t)
                 THEN FALSE
            ELSE IF IncludeTerms(patterns) = {} THEN TRUE
            ELSE \E t \in IncludeTerms(patterns) : matchSinglePattern(safeValue, t)

\* matchPattern that tests the include terms before the exclude terms
matchPattern_IncludeFirst(value, pattern) ==
    IF ~Truthy(pattern) \/ pattern = <<"*">> THEN TRUE
    ELSE
        LET safeValue == StringOrEmpty(value)
            patterns  == expandPatternList(pattern)
        IN  IF Len(patterns) = 0 THEN TRUE
            ELSE IF \E t \in IncludeTerms(patterns) : matchSinglePattern(safeValue, t)
                 THEN TRUE
            ELSE IF \E t \in ExcludeTerms(patterns) : matchSinglePattern(safeValue, t)
                 THEN FALSE
            ELSE IncludeTerms(patterns) = {}

\* matchPattern without the "only exclusions" branch
matchPattern_NoExclusionOnly(value, pattern) ==
    IF ~Truthy(pattern) \/ pattern = <<"*">> THEN TRUE
    ELSE
        LET safeValue == StringOrEmpty(value)
            patterns  == expandPatternList(pattern)
        IN  IF Len(patterns) = 0 THEN TRUE
            ELSE IF \E t \in ExcludeTerms(patterns) : matchSinglePattern(safeValue, t)
                 THEN FALSE
            ELSE \E t \in IncludeTerms(patterns) : matchSinglePattern(safeValue, t)

\* matchPattern(value, pattern)
matchPattern(value, pattern) ==
    IF ~Truthy(pattern) \/ pattern = <<"*">> THEN TRUE
    ELSE
        LET safeValue == StringOrEmpty(value)
            patterns  == expandPatternList(pattern)
        IN  IF Len(patterns) = 0 THEN TRUE
            ELSE IF \E t \in ExcludeTerms(patterns) : matchSinglePattern(safeValue, t)
                 THEN FALSE
            ELSE IF IncludeTerms(patterns) = {} THEN TRUE
            ELSE \E t \in IncludeTerms(patterns) : matchSinglePattern(safeValue, t)

\* the four levels of matchHierarchy and the property of the filter that
\* holds the expression of each
HierarchyLevels == {"ied", "ld", "ln", "lninst"}

PatternOf(level) ==
    CASE level = "ied"    -> "iedPattern"
      [] level = "ld"     -> "ldPattern"
      [] level = "ln"     -> "lnPattern"
      [] level = "lninst" -> "lninstPattern"

\* a changed matchHierarchy that holds as soon as one level matches
matchHierarchy_AnyLevel(item, filter) ==
    \/ matchPattern(Get(item, "ied"), Get(filter, "iedPattern"))
    \/ matchPattern(Get(item, "ld"), Get(filter, "ldPattern"))
    \/ matchPattern(Get(item, "ln"), Get(filter, "lnPattern"))
    \/ matchPattern(Get(item, "lninst"), Get(filter, "lninstPattern"))

\* matchHierarchy({ ied, ld, ln, lninst }, { iedPattern, ldPattern, lnPattern,
\* lninstPattern }): a property the argument does not have is undefined
matchHierarchy(item, filter) ==
    /\ matchPattern(Get(item, "ied"), Get(filter, "iedPattern"))
    /\ matchPattern(Get(item, "ld"), Get(filter, "ldPattern"))
    /\ matchPattern(Get(item, "ln"), Get(filter, "lnPattern"))
    /\ matchPattern(Get(item, "lninst"), Get(filter, "lninstPattern"))

(***************************************************************************)
(* ICD library page: grouping of the catalog into cards                    *)
(***************************************************************************)

\* the version entry groupByIcdId pushes for a catalog entry (imported_at,
\* ld_count and ln_count are copied the same way as filename and path)
VersionOf(entry) ==
    [version  |-> Get(entry, "version"),
     filename |-> Get(entry, "filename"),
     path     |-> Get(entry, "path")]

\* the key of the group of an entry: `${entry.ied_type}_${entry.manufacturer}`
GroupKey(entry) ==
    TemplateText(Get(entry, "ied_type")) \o <<"_">> \o TemplateText(Get(entry, "manufacturer"))

\* position of the group with key `key` in `groups`, 0 if there is none
GroupIndex(groups, key) ==
    IF \E k \in 1..Len(groups) : groups[k].key = key
    THEN CHOOSE k \in 1..Len(groups) : groups[k].key = key
    ELSE 0

\* the body of the forEach of groupByIcdId: `groups` after `entry`
AddToGroups(groups, entry) ==
    LET key   == GroupKey(entry)
        k     == GroupIndex(groups, key)
        fresh == [key |-> key,
                  card |-> [icd_id |-> Get(entry, "icd_id"),
                            ied_type |-> Get(entry, "ied_type"),
                            manufacturer |-> Get(entry, "manufacturer"),
                            active_version |-> Get(entry, "version"),
                            versions |-> <<>>]]
        with  == IF k = 0 THEN Append(groups, fresh) ELSE groups
        at    == IF k = 0 THEN Len(with) ELSE k
    IN  [with EXCEPT ![at].card.versions = Append(@, VersionOf(entry))]

RECURSIVE GroupFold(_, _, _)
GroupFold(entries, i, groups) ==
    IF i > Len(entries) THEN groups
    ELSE GroupFold(entries, i + 1, AddToGroups(groups, entries[i]))

\* groupByIcdId putting each version entry in front of its group's list
\* (unshift instead of push)
groupByIcdId_Unshift(entries) ==
    LET groups == GroupFold(entries, 1, <<>>)
    IN  [k \in 1..Len(groups) |->
            [groups[k].card EXCEPT !.versions =
                [i \in 1..Len(@) |-> @[Len(@) + 1 - i]]]]

\* groupByIcdId pushing a version entry only when it creates the group
groupByIcdId_OnlyFirstOfGroup(entries) ==
    LET groups == GroupFold(entries, 1, <<>>)
    IN  [k \in 1..Len(groups) |-> [groups[k].card EXCEPT !.versions = <<Head(@)>>]]

\* groupByIcdId(entries): Object.values(groups), in key insertion order
groupByIcdId(entries) ==
    LET groups == GroupFold(entries, 1, <<>>)
    IN  [k \in 1..Len(groups) |-> groups[k].card]

\* getActiveVersion falling back on the first entry of the card
getActiveVersion_FirstFallback(card) ==
    LET matching == {k \in 1..Len(card.versions) :
                        card.versions[k].version = card.active_version}
    IN  IF matching # {}
        THEN card.versions[CHOOSE k \in matching : \A l \in matching : k <= l]
        ELSE IF Len(card.versions) > 0
             THEN card.versions[1]
             ELSE [version |-> <<"n", "/", "a">>, filename |-> NULL, path |-> NULL]

\* getActiveVersion(card)
getActiveVersion(card) ==
    LET matching == {k \in 1..Len(card.versions) :
                        card.versions[k].version = card.active_version}
    IN  IF matching # {}
        THEN card.versions[CHOOSE k \in matching : \A l \in matching : k <= l]
        ELSE IF Len(card.versions) > 0
             THEN card.versions[Len(card.versions)]
             ELSE [version |-> <<"n", "/", "a">>, filename |-> NULL, path |-> NULL]

\* no option of a version select has been chosen yet
NoVersionChoice ==
    [chosen |-> FALSE, ied_type |-> <<>>, manufacturer |-> <<>>, version |-> <<>>]

\* getFilteredCatalog()
getFilteredCatalog(catalog, typeValue, manufacturerValue) ==
    SelectSeq(catalog, LAMBDA entry :
        /\ (~Truthy(typeValue) \/ entry.ied_type = typeValue)
        /\ (~Truthy(manufacturerValue) \/ entry.manufacturer = manufacturerValue))

\* renderIcdCards(): the cards put in the container (none for an empty list)
renderIcdCards(catalog, typeValue, manufacturerValue) ==
    LET filtered == getFilteredCatalog(catalog, typeValue, manufacturerValue)
    IN  IF Len(filtered) = 0 THEN <<>> ELSE groupByIcdId(filtered)

(***************************************************************************)
(* The API behind fetch(): pattern store and ICD index.  The backend is    *)
(* not part of the front-end sources; its effect on icd_refs is taken from *)
(* the link / unlink contract.                                             *)
(***************************************************************************)

\* the IED patterns the API serves, in file order: a parent, its variant
\* and a pattern without variants
PatternOrder == <<"P1", "V1", "P2">>

PatternIds == {"P1", "V1", "P2"}

\* the `parent` attribute of a pattern ("" when it has none)
ParentOf(id) == IF id = "V1" THEN "P1" ELSE ""

\* the `variants` attribute of a pattern
VariantsOf(id) == SelectSeq(PatternOrder, LAMBDA q : ParentOf(q) = id)

\* POST /patterns/{patternId}/link: adds the reference to that pattern
SrvLink(refs, patternId, ref) ==
    IF patternId \in DOMAIN refs
    THEN [refs EXCEPT ![patternId] = @ \cup {ref}]
    ELSE refs

\* POST /patterns/{patternId}/unlink: removes the reference from that pattern
SrvUnlink(refs, patternId, ref) ==
    IF patternId \in DOMAIN refs
    THEN [refs EXCEPT ![patternId] = @ \ {ref}]
    ELSE refs

\* GET /patterns: the pattern list with the stored icd_refs
SrvPatterns(refs) ==
    [k \in 1..Len(PatternOrder) |->
        [id |-> PatternOrder[k],
         parent |-> ParentOf(PatternOrder[k]),
         variants |-> VariantsOf(PatternOrder[k]),
         icd_refs |-> refs[PatternOrder[k]]]]

\* the store after the requests of `reqs` whose index is in `applied`
RECURSIVE ApplyRequests(_, _, _, _)
ApplyRequests(refs, reqs, applied, i) ==
    IF i > Len(reqs) THEN refs
    ELSE LET r    == reqs[i]
             next == IF i \notin applied THEN refs
                     ELSE IF r.op = "link" THEN SrvLink(refs, r.pattern, r.ref)
                     ELSE SrvUnlink(refs, r.pattern, r.ref)
         IN  ApplyRequests(next, reqs, applied, i + 1)

\* the API answers a link or unlink request with an error status when it
\* has no pattern of that id
SrvKnowsPattern(refs, patternId) == patternId \in DOMAIN refs

(***************************************************************************)
(* IED / ICD page: the functions that call the API.  Each gives the store  *)
(* after the call, whether the call threw to its caller, and the toast it  *)
(* showed.                                                                 *)
(***************************************************************************)

\* linkIcd posting to /unlink instead of /link
linkIcd_PostsUnlink(refs, patternId, icdId) ==
    [refs |-> SrvUnlink(refs, patternId, icdId), thrown |-> FALSE, toast |-> "none"]

\* linkIcd(patternId, icdId): awaits the fetch inside try / catch, never
\* reads the response, logs and returns
linkIcd(refs, patternId, icdId) ==
    [refs |-> SrvLink(refs, patternId, icdId), thrown |-> FALSE, toast |-> "none"]

\* unlinkIcdApi sending no request
unlinkIcdApi_NoRequest(refs, patternId, icdId) ==
    [refs |-> refs, thrown |-> FALSE, toast |-> "none"]

\* unlinkIcdApi(patternId, icdId): a response that is not ok is written to
\* the console, and so is an exception
unlinkIcdApi(refs, patternId, icdId) ==
    [refs |-> SrvUnlink(refs, patternId, icdId), thrown |-> FALSE, toast |-> "none"]

\* linkIcdToPattern(icdId, patternId): a success toast when the response is
\* ok, an error toast otherwise
linkIcdToPattern(refs, icdId, patternId) ==
    [refs |-> SrvLink(refs, patternId, icdId), thrown |-> FALSE,
     toast |-> IF SrvKnowsPattern(refs, patternId) THEN "success" ELSE "error"]

(***************************************************************************)
(* Both pages: loading the globals                                         *)
(***************************************************************************)

\* loadIedPatterns(): data.patterns, or [] when the request fails
loadIedPatterns(ok, refs) == IF ok THEN SrvPatterns(refs) ELSE <<>>

\* loadIcdCatalog() / loadCatalogFromApi(): data.icds, or [] on failure
loadIcdCatalog(ok, catalog) == IF ok THEN catalog ELSE <<>>

\* (pattern?.icd_refs || []) for pattern = patterns.find(p => p.id === id)
RefsOfPattern(patterns, id) ==
    IF \E k \in 1..Len(patterns) : patterns[k].id = id
    THEN patterns[CHOOSE k \in 1..Len(patterns) : patterns[k].id = id].icd_refs
    ELSE {}

(***************************************************************************)
(* IED / ICD page: linked and orphan ICD of the patterns                   *)
(***************************************************************************)

\* getIcdsForPattern with refs matched by containment instead of equality
getIcdsForPattern_Substring(pattern, catalog) ==
    IF pattern.icd_refs = {} THEN <<>>
    ELSE SelectSeq(catalog, LAMBDA icd :
            \E ref \in pattern.icd_refs :
                \E i \in 0..(Len(ref) - Len(icd.icd_id)) :
                    SubSeq(ref, i + 1, i + Len(icd.icd_id)) = icd.icd_id)

\* getIcdsForPattern(pattern)
getIcdsForPattern(pattern, catalog) ==
    IF pattern.icd_refs = {} THEN <<>>
    ELSE SelectSeq(catalog, LAMBDA icd : icd.icd_id \in pattern.icd_refs)

\* getChildPatterns(parentId)
getChildPatterns(parentId, patterns) ==
    SelectSeq(patterns, LAMBDA p : p.parent = parentId)

\* the forEach of getIcdsForPatternWithVariants: push what is not yet there
RECURSIVE MergeByIcdId(_, _, _)
MergeByIcdId(allIcds, more, i) ==
    IF i > Len(more) THEN allIcds
    ELSE IF \E k \in 1..Len(allIcds) : allIcds[k].icd_id = more[i].icd_id
         THEN MergeByIcdId(allIcds, more, i + 1)
         ELSE MergeByIcdId(Append(allIcds, more[i]), more, i + 1)

\* getIcdsForPatternWithVariants(pattern)
getIcdsForPatternWithVariants(pattern, patterns, catalog) ==
    LET ownIcds      == getIcdsForPattern(pattern, catalog)
        children     == getChildPatterns(pattern.id, patterns)
        childrenIcds == Flatten([k \in 1..Len(children) |->
                                    getIcdsForPattern(children[k], catalog)])
    IN  MergeByIcdId(ownIcds, childrenIcds, 1)

\* getOrphanIcds that collects the refs of the patterns without parent only
getOrphanIcds_ParentsOnly(patterns, catalog) ==
    LET allLinkedRefs == UNION {patterns[k].icd_refs :
                                   k \in {n \in 1..Len(patterns) : patterns[n].parent = ""}}
    IN  SelectSeq(catalog, LAMBDA icd : icd.icd_id \notin allLinkedRefs)

\* getOrphanIcds that takes an ICD for linked when a ref contains its icd_id
getOrphanIcds_Substring(patterns, catalog) ==
    LET allLinkedRefs == UNION {patterns[k].icd_refs : k \in 1..Len(patterns)}
    IN  SelectSeq(catalog, LAMBDA icd :
            ~\E ref \in allLinkedRefs :
                \E i \in 0..(Len(ref) - Len(icd.icd_id)) :
                    SubSeq(ref, i + 1, i + Len(icd.icd_id)) = icd.icd_id)

\* getOrphanIcds()
getOrphanIcds(patterns, catalog) ==
    LET allLinkedRefs == UNION {patterns[k].icd_refs : k \in 1..Len(patterns)}
    IN  SelectSeq(catalog, LAMBDA icd : icd.icd_id \notin allLinkedRefs)

\* the pattern ids in the localeCompare order of the display names
DisplayOrder == <<"P2", "P1", "V1">>

\* localeCompare order of the manufacturers of the entries
ManufacturerOrder == << <<"B", "_", "C">>, <<"C">>, <<"C", "2">> >>

\* localeCompare order of the ied_type values of the entries
TypeOrder == << <<"A">>, <<"A", "_", "B">> >>

\* Array.prototype.sort of `items` by their `field`, whose values compare as
\* listed in `order` (stable)
SortBy(items, field, order) ==
    Flatten([k \in 1..Len(order) |->
                SelectSeq(items, LAMBDA x : x[field] = order[k])])

\* getFilteredPatterns() with an empty search text
getFilteredPatterns(patterns, catalog, linkedValue) ==
    LET Keep(p) ==
            LET linkedIcds  == getIcdsForPatternWithVariants(p, patterns, catalog)
                hasIcd      == Len(linkedIcds) > 0
                matchLinked == \/ linkedValue = ""
                               \/ linkedValue = "linked" /\ hasIcd
                               \/ linkedValue = "unlinked" /\ ~hasIcd
            IN  p.parent = "" /\ matchLinked
    IN  SortBy(SelectSeq(patterns, Keep), "id", DisplayOrder)

\* buildIedCard(pattern): the ICD rows of the card and its badge count
buildIedCard(pattern, patterns, catalog) ==
    [id |-> pattern.id,
     linkedIcds |-> getIcdsForPattern(pattern, catalog),
     totalIcds |-> Len(getIcdsForPatternWithVariants(pattern, patterns, catalog))]

\* renderIedCards(): one card per filtered pattern
renderIedCards(patterns, catalog, linkedValue) ==
    LET filtered == getFilteredPatterns(patterns, catalog, linkedValue)
    IN  [k \in 1..Len(filtered) |-> buildIedCard(filtered[k], patterns, catalog)]

\* renderOrphanIcds(): the orphans sorted by ied_type, then manufacturer
renderOrphanIcds(patterns, catalog) ==
    LET orphans == getOrphanIcds(patterns, catalog)
    IN  SortBy(SortBy(orphans, "manufacturer", ManufacturerOrder), "ied_type", TypeOrder)

(***************************************************************************)
(* Library page: the modal that links an ICD to patterns                   *)
(***************************************************************************)

\* encodeURIComponent, for the characters that occur in the values used here
encodeURIComponent(str) ==
    Flatten([k \in 1..Len(str) |->
        IF str[k] = "/" THEN <<"%", "2", "F">>
        ELSE IF str[k] = "%" THEN <<"%", "2", "5">>
        ELSE IF str[k] = " " THEN <<"%", "2", "0">>
        ELSE <<str[k]>>])

\* decodeURIComponent, for the escapes encodeURIComponent produces here
RECURSIVE decodeURIComponent(_)
decodeURIComponent(str) ==
    IF str = <<>> THEN <<>>
    ELSE IF Len(str) >= 3 /\ SubSeq(str, 1, 3) = <<"%", "2", "F">>
         THEN <<"/">> \o decodeURIComponent(SubSeq(str, 4, Len(str)))
    ELSE IF Len(str) >= 3 /\ SubSeq(str, 1, 3) = <<"%", "2", "5">>
         THEN <<"%">> \o decodeURIComponent(SubSeq(str, 4, Len(str)))
    ELSE IF Len(str) >= 3 /\ SubSeq(str, 1, 3) = <<"%", "2", "0">>
         THEN <<" ">> \o decodeURIComponent(SubSeq(str, 4, Len(str)))
    ELSE <<Head(str)>> \o decodeURIComponent(Tail(str))

\* String.prototype.includes
Includes(str, sub) ==
    \E i \in 0..(Len(str) - Len(sub)) : SubSeq(str, i + 1, i + Len(sub)) = sub

\* `${decodeURIComponent(iedType)}/${decodeURIComponent(manufacturer)}`
IcdPath(iedType, manufacturer) ==
    decodeURIComponent(iedType) \o <<"/">> \o decodeURIComponent(manufacturer)

\* (p.icd_refs || []).some(ref => ref.includes(icdPath)) for pattern id
IsLinkedByPath(patterns, id, icdPath) ==
    \E ref \in RefsOfPattern(patterns, id) : Includes(ref, icdPath)

\* the checkboxes showLinkPatternModal builds, one per pattern
LinkCheckboxes(patterns, iedType, manufacturer) ==
    [k \in 1..Len(patterns) |->
        [value |-> patterns[k].id,
         checked |-> IsLinkedByPath(patterns, patterns[k].id,
                                    IcdPath(iedType, manufacturer)),
         parent |-> patterns[k].parent,
         hasVariants |-> Len(patterns[k].variants) > 0]]

\* handlePatternCheckChange that also checks the parent of a checked variant
handlePatternCheckChange_AlsoParent(boxes, k) ==
    IF boxes[k].checked
    THEN [n \in 1..Len(boxes) |->
            IF boxes[n].parent = boxes[k].value \/ boxes[n].value = boxes[k].parent
            THEN [boxes[n] EXCEPT !.checked = TRUE]
            ELSE boxes[n]]
    ELSE boxes

\* handlePatternCheckChange(checkbox): the checkboxes after the change event
\* of checkbox k (whose `checked` the browser has already toggled)
handlePatternCheckChange(boxes, k) ==
    IF boxes[k].hasVariants /\ boxes[k].checked
    THEN [n \in 1..Len(boxes) |->
            IF boxes[n].parent = boxes[k].value
            THEN [boxes[n] EXCEPT !.checked = TRUE]
            ELSE boxes[n]]
    ELSE boxes

\* the requests the loop of saveLinkPatterns sends, in order
saveLinkRequests(boxes, patterns, icdPath) ==
    Flatten([k \in 1..Len(boxes) |->
        LET wasLinked == IsLinkedByPath(patterns, boxes[k].value, icdPath)
        IN  IF boxes[k].checked /\ ~wasLinked
            THEN <<[op |-> "link", pattern |-> boxes[k].value, ref |-> icdPath]>>
            ELSE IF ~boxes[k].checked /\ wasLinked
            THEN <<[op |-> "unlink", pattern |-> boxes[k].value, ref |-> icdPath]>>
            ELSE <<>>])

(***************************************************************************)
(* IED / ICD page: the modals that assign and move ICD                     *)
(***************************************************************************)

\* the checkboxes showAssignIcdModal builds, one per catalog entry
AssignCheckboxes(patterns, catalog, patternId) ==
    [k \in 1..Len(catalog) |->
        [value |-> catalog[k].icd_id,
         checked |-> catalog[k].icd_id \in RefsOfPattern(patterns, patternId)]]

\* the requests the loop of saveAssignments sends, in order
saveAssignmentRequests(boxes, patterns, patternId) ==
    Flatten([k \in 1..Len(boxes) |->
        LET wasLinked == boxes[k].value \in RefsOfPattern(patterns, patternId)
        IN  IF boxes[k].checked /\ ~wasLinked
            THEN <<[op |-> "link", pattern |-> patternId, ref |-> boxes[k].value]>>
            ELSE IF ~boxes[k].checked /\ wasLinked
            THEN <<[op |-> "unlink", pattern |-> patternId, ref |-> boxes[k].value]>>
            ELSE <<>>])

\* the requests of moveIcd: unlink from the old pattern, link to the new one
moveIcdRequests(icdId, currentPatternId, newPatternId) ==
    <<[op |-> "unlink", pattern |-> currentPatternId, ref |-> icdId],
      [op |-> "link", pattern |-> newPatternId, ref |-> icdId]>>

\* the options of #new-pattern-select in showMoveIcdModal
MoveOptions(patterns, currentPatternId) ==
    {patterns[k].id : k \in {n \in 1..Len(patterns) :
        patterns[n].id # currentPatternId /\ patterns[n].parent = ""}}

\* the options of #target-pattern-select in showAssignOrphanModal
OrphanOptions(patterns) ==
    {patterns[k].id : k \in {n \in 1..Len(patterns) : patterns[n].parent = ""}}

(***************************************************************************)
(* Specification of the library page: the catalog the API returned is any  *)
(* list of the bounded entry set; the user changes the filters.            *)
(***************************************************************************)

\* most catalog entries in the library page
MaxRecords == 3

\* ied_type values: one contains the '_' the group key is joined with
LibraryTypes == {<<"A">>, <<"A", "_", "B">>}

LibraryManufacturers == {<<"C">>, <<"B", "_", "C">>}

LibraryVersions == {<<"V", "1">>, <<"V", "2">>}

\* one catalog entry per (type, manufacturer, version); the file of an entry
\* is named after the three, and the index identifies the ICD of all the
\* versions as ICD_{type}_{manufacturer}
LibraryEntry(t, m, v) ==
    [icd_id |-> <<"I", "C", "D", "_">> \o t \o <<"_">> \o m,
     ied_type |-> t,
     manufacturer |-> m,
     version |-> v,
     filename |-> t \o <<"-">> \o m \o <<"-">> \o v,
     path |-> t \o <<"/">> \o m \o <<"/">> \o v]

LibraryEntries ==
    {LibraryEntry(t, m, v) : t \in LibraryTypes, m \in LibraryManufacturers,
                             v \in LibraryVersions}

\* after initIcdPage: catalog loaded, no filter, cards rendered
InitLibrary ==
    /\ icdCatalog \in UNION {[1..n -> LibraryEntries] : n \in 0..MaxRecords}
    /\ filterType = <<>>
    /\ filterManufacturer = <<>>
    /\ icdCards = renderIcdCards(icdCatalog, <<>>, <<>>)
    /\ versionChoice = NoVersionChoice
    /\ page = "library"
    /\ srvRefs = [id \in PatternIds |-> {}]
    /\ srvCatalog = icdCatalog
    /\ iedPatterns = SrvPatterns(srvRefs)
    /\ pendingPatternForUpload = ""
    /\ modal = [kind |-> "none"]
    /\ filterLinked = ""
    /\ iedCards = <<>>
    /\ orphanIcds = <<>>
    /\ mValue = NULL
    /\ mPattern = NULL
    /\ mCalled = FALSE
    /\ mResult = FALSE
    /\ mFunction = "matchPattern"
    /\ OtherPagesIdle

\* change of the type filter (setupFilters: renderIcdCards on change)
ChangeTypeFilter ==
    \E t \in LibraryTypes \cup {<<>>} :
        /\ t # filterType
        /\ filterType' = t
        /\ icdCards' = renderIcdCards(icdCatalog, t, filterManufacturer)
        /\ UNCHANGED <<icdCatalog, filterManufacturer, versionChoice>>
        /\ UNCHANGED matchVars
        /\ UNCHANGED linkVars
        /\ UNCHANGED otherVars

\* change of the manufacturer filter
ChangeManufacturerFilter ==
    \E m \in LibraryManufacturers \cup {<<>>} :
        /\ m # filterManufacturer
        /\ filterManufacturer' = m
        /\ icdCards' = renderIcdCards(icdCatalog, filterType, m)
        /\ UNCHANGED <<icdCatalog, filterType, versionChoice>>
        /\ UNCHANGED matchVars
        /\ UNCHANGED linkVars
        /\ UNCHANGED otherVars

\* resetIcdFilters()
ResetIcdFilters ==
    /\ filterType' = <<>>
    /\ filterManufacturer' = <<>>
    /\ icdCards' = renderIcdCards(icdCatalog, <<>>, <<>>)
    /\ UNCHANGED <<icdCatalog, versionChoice>>
    /\ UNCHANGED matchVars
    /\ UNCHANGED linkVars
    /\ UNCHANGED otherVars

\* the user picks another option of a card's "Version active" select:
\* setActiveVersion(iedType, manufacturer, version) regroups the whole
\* catalog, sets active_version on the card of that fresh grouping, and
\* calls renderIcdCards(), which groups the filtered catalog anew
SetActiveVersion ==
    \E c \in 1..Len(icdCards) : \E k \in 1..Len(icdCards[c].versions) :
        LET iedType      == icdCards[c].ied_type
            manufacturer == icdCards[c].manufacturer
            version      == icdCards[c].versions[k].version
            grouped      == groupByIcdId(icdCatalog)
            found        == {g \in 1..Len(grouped) :
                                /\ grouped[g].ied_type = iedType
                                /\ grouped[g].manufacturer = manufacturer}
            \* local to the call: dropped when setActiveVersion returns
            pinned       == [g \in 1..Len(grouped) |->
                                IF found # {} /\ g = CHOOSE f \in found : \A h \in found : f <= h
                                THEN [grouped[g] EXCEPT !.active_version = version]
                                ELSE grouped[g]]
        IN  /\ version # getActiveVersion(icdCards[c]).version
            /\ versionChoice' = [chosen |-> TRUE, ied_type |-> iedType,
                                 manufacturer |-> manufacturer, version |-> version]
            /\ icdCards' = renderIcdCards(icdCatalog, filterType, filterManufacturer)
            /\ UNCHANGED <<icdCatalog, filterType, filterManufacturer>>
            /\ UNCHANGED matchVars
            /\ UNCHANGED linkVars
            /\ UNCHANGED otherVars

NextLibrary ==
    \/ ChangeTypeFilter
    \/ ChangeManufacturerFilter
    \/ ResetIcdFilters
    \/ SetActiveVersion

SpecLibrary == InitLibrary /\ [][NextLibrary]_vars

(***************************************************************************)
(* Specification of the two pages against the API: one browser tab shows   *)
(* the library page or the IED / ICD page; a page load resets the globals. *)
(* A handler runs to its end before the next user action.                  *)
(***************************************************************************)

\* most entries in the ICD index of the API
MaxCatalog == 2

\* the versions of the ICD A / C that can be imported
ImportableVersions == {<<"V", "1">>, <<"V", "2">>, <<"V", "3">>}

ImportableEntries == {LibraryEntry(<<"A">>, <<"C">>, v) : v \in ImportableVersions}

NoModal == [kind |-> "none"]

\* a set as a sequence, in some fixed order
RECURSIVE SeqOfSet(_)
SeqOfSet(S) ==
    IF S = {} THEN <<>>
    ELSE LET x == CHOOSE y \in S : TRUE IN <<x>> \o SeqOfSet(S \ {x})

\* the entries an import can add to the index: new ones that still fit
ImportableBatches ==
    {B \in SUBSET (ImportableEntries \ Range(srvCatalog)) :
        Len(srvCatalog) + Cardinality(B) <= MaxCatalog}

\* DELETE /{icdId}: the index without the entries of that ICD
SrvDeleteIcd(catalog, icdId) == SelectSeq(catalog, LAMBDA e : e.icd_id # icdId)

\* DELETE /{iedType}/{manufacturer}/{version}: the index without that entry
SrvDeleteVersion(catalog, iedType, manufacturer, version) ==
    SelectSeq(catalog, LAMBDA e :
        ~(/\ e.ied_type = decodeURIComponent(iedType)
          /\ e.manufacturer = decodeURIComponent(manufacturer)
          /\ e.version = decodeURIComponent(version)))

Init ==
    /\ page = "library"
    /\ srvRefs = [id \in PatternIds |-> {}]
    /\ srvCatalog = <<>>
    /\ iedPatterns = SrvPatterns(srvRefs)
    /\ icdCatalog = <<>>
    /\ filterType = <<>>
    /\ filterManufacturer = <<>>
    /\ icdCards = <<>>
    /\ versionChoice = NoVersionChoice
    /\ pendingPatternForUpload = ""
    /\ modal = NoModal
    /\ filterLinked = ""
    /\ iedCards = <<>>
    /\ orphanIcds = <<>>
    /\ mValue = NULL
    /\ mPattern = NULL
    /\ mCalled = FALSE
    /\ mResult = FALSE
    /\ mFunction = "matchPattern"
    /\ OtherPagesIdle

\* what no handler below touches
Untouched ==
    /\ UNCHANGED <<mValue, mPattern, mCalled, mResult, mFunction, filterType,
                   filterManufacturer, versionChoice, filterLinked>>
    /\ UNCHANGED otherVars

\* initIcdPage(): the library page is loaded
OpenLibraryPage ==
    \E okPatterns, okCatalog \in BOOLEAN :
        /\ page' = "library"
        /\ iedPatterns' = loadIedPatterns(okPatterns, srvRefs)
        /\ icdCatalog' = loadIcdCatalog(okCatalog, srvCatalog)
        /\ icdCards' = renderIcdCards(icdCatalog', filterType, filterManufacturer)
        /\ pendingPatternForUpload' = ""
        /\ modal' = NoModal
        /\ iedCards' = <<>>
        /\ orphanIcds' = <<>>
        /\ UNCHANGED <<srvRefs, srvCatalog>>
        /\ Untouched

\* initIedIcdPage(): the IED / ICD page is loaded
OpenIedPage ==
    \E okPatterns, okCatalog \in BOOLEAN :
        /\ page' = "ied"
        /\ iedPatterns' = loadIedPatterns(okPatterns, srvRefs)
        /\ icdCatalog' = loadIcdCatalog(okCatalog, srvCatalog)
        /\ icdCards' = <<>>
        /\ pendingPatternForUpload' = ""
        /\ modal' = NoModal
        /\ iedCards' = renderIedCards(iedPatterns', icdCatalog', filterLinked)
        /\ orphanIcds' = renderOrphanIcds(iedPatterns', icdCatalog')
        /\ UNCHANGED <<srvRefs, srvCatalog>>
        /\ Untouched

\* setupIcdUpload (library page): change event of #icd-upload; the entries
\* of B are the ones the API accepted
LibraryUpload ==
    /\ page = "library"
    /\ modal = NoModal
    /\ \E B \in ImportableBatches, okCatalog \in BOOLEAN :
        /\ srvCatalog' = srvCatalog \o SeqOfSet(B)
        /\ icdCatalog' = loadIcdCatalog(okCatalog, srvCatalog')
        /\ icdCards' = renderIcdCards(icdCatalog', filterType, filterManufacturer)
    /\ UNCHANGED <<page, iedPatterns, pendingPatternForUpload, modal, iedCards,
                   orphanIcds, srvRefs>>
    /\ Untouched

\* deleteIcd(iedType, manufacturer, version) from a version row of a card
DeleteIcd ==
    /\ page = "library"
    /\ modal = NoModal
    /\ \E k \in 1..Len(icdCards), okDelete, okCatalog \in BOOLEAN :
        \E n \in 1..Len(icdCards[k].versions) :
            IF okDelete
            THEN /\ srvCatalog' = SrvDeleteVersion(srvCatalog,
                                      encodeURIComponent(icdCards[k].ied_type),
                                      encodeURIComponent(icdCards[k].manufacturer),
                                      encodeURIComponent(icdCards[k].versions[n].version))
                 /\ icdCatalog' = loadIcdCatalog(okCatalog, srvCatalog')
                 /\ icdCards' = renderIcdCards(icdCatalog', filterType, filterManufacturer)
            ELSE UNCHANGED <<srvCatalog, icdCatalog, icdCards>>
    /\ UNCHANGED <<page, iedPatterns, pendingPatternForUpload, modal, iedCards,
                   orphanIcds, srvRefs>>
    /\ Untouched

\* showLinkPatternModal(iedType, manufacturer) from the button of a card;
\* the modal is built unless the fetch of the suggestions throws
ShowLinkPatternModal ==
    /\ page = "library"
    /\ modal = NoModal
    /\ \E k \in 1..Len(icdCards), okPatterns, suggestFetched \in BOOLEAN :
        LET iedType      == encodeURIComponent(icdCards[k].ied_type)
            manufacturer == encodeURIComponent(icdCards[k].manufacturer)
        IN  /\ iedPatterns' = IF Len(iedPatterns) = 0
                              THEN loadIedPatterns(okPatterns, srvRefs)
                              ELSE iedPatterns
            /\ modal' = IF suggestFetched
                        THEN [kind |-> "link",
                              iedType |-> iedType,
                              manufacturer |-> manufacturer,
                              boxes |-> LinkCheckboxes(iedPatterns', iedType, manufacturer),
                              clicked |-> {}]
                        ELSE NoModal
    /\ UNCHANGED <<page, icdCatalog, icdCards, pendingPatternForUpload, iedCards,
                   orphanIcds, srvRefs, srvCatalog>>
    /\ Untouched

\* the user clicks checkbox k of the link modal: the browser toggles it and
\* runs handlePatternCheckChange; `clicked` records the boxes the user used
ClickPatternCheckbox ==
    /\ modal.kind = "link"
    /\ \E k \in 1..Len(modal.boxes) :
        LET toggled == [modal.boxes EXCEPT ![k].checked = ~@]
        IN  modal' = [modal EXCEPT !.boxes = handlePatternCheckChange(toggled, k),
                                   !.clicked = @ \cup {modal.boxes[k].value}]
    /\ UNCHANGED <<page, iedPatterns, icdCatalog, icdCards, pendingPatternForUpload,
                   iedCards, orphanIcds, srvRefs, srvCatalog>>
    /\ Untouched

\* saveLinkPatterns(iedType, manufacturer): the first `sent` requests get a
\* response, those of `applied` a successful one; when a later fetch throws
\* the handler ends there, before the reload and with the modal left open
SaveLinkPatterns ==
    /\ modal.kind = "link"
    /\ LET reqs == saveLinkRequests(modal.boxes, iedPatterns,
                                    IcdPath(modal.iedType, modal.manufacturer))
       IN  \E sent \in 0..Len(reqs), okPatterns \in BOOLEAN :
           \E applied \in SUBSET (1..sent) :
               /\ srvRefs' = ApplyRequests(srvRefs, reqs, applied, 1)
               /\ IF sent = Len(reqs)
                  THEN /\ iedPatterns' = loadIedPatterns(okPatterns, srvRefs')
                       /\ icdCards' = renderIcdCards(icdCatalog, filterType, filterManufacturer)
                       /\ modal' = NoModal
                  ELSE UNCHANGED <<iedPatterns, icdCards, modal>>
    /\ UNCHANGED <<page, icdCatalog, pendingPatternForUpload, iedCards, orphanIcds,
                   srvCatalog>>
    /\ Untouched

\* closeLinkPatternModal()
CloseLinkPatternModal ==
    /\ modal.kind = "link"
    /\ modal' = NoModal
    /\ UNCHANGED <<page, iedPatterns, icdCatalog, icdCards, pendingPatternForUpload,
                   iedCards, orphanIcds, srvRefs, srvCatalog>>
    /\ Untouched

\* what the handlers of the IED / ICD page leave alone besides `Untouched`
IedFrame == UNCHANGED <<page, icdCards>>

\* the three render calls that end a handler of the IED / ICD page
RefreshIedPage ==
    /\ iedCards' = renderIedCards(iedPatterns', icdCatalog', filterLinked)
    /\ orphanIcds' = renderOrphanIcds(iedPatterns', icdCatalog')

\* handleDrop(event): an orphan card is dropped on the card of a pattern;
\* linkIcdToPattern reloads and renders only when the response is ok
HandleDrop ==
    /\ page = "ied"
    /\ modal = NoModal
    /\ \E o \in 1..Len(orphanIcds), c \in 1..Len(iedCards), responseOk, okPatterns \in BOOLEAN :
        IF responseOk
        THEN /\ srvRefs' = SrvLink(srvRefs, iedCards[c].id, orphanIcds[o].icd_id)
             /\ iedPatterns' = loadIedPatterns(okPatterns, srvRefs')
             /\ UNCHANGED icdCatalog
             /\ RefreshIedPage
        ELSE UNCHANGED <<srvRefs, iedPatterns, icdCatalog, iedCards, orphanIcds>>
    /\ UNCHANGED <<pendingPatternForUpload, modal, srvCatalog>>
    /\ IedFrame
    /\ Untouched

\* triggerIcdUpload()
TriggerIcdUpload ==
    /\ page = "ied"
    /\ modal = NoModal
    /\ pendingPatternForUpload' = ""
    /\ UNCHANGED <<iedPatterns, icdCatalog, modal, iedCards, orphanIcds, srvRefs, srvCatalog>>
    /\ IedFrame
    /\ Untouched

\* triggerIcdUploadForPattern(patternId) from the button of a card
TriggerIcdUploadForPattern ==
    /\ page = "ied"
    /\ modal = NoModal
    /\ \E c \in 1..Len(iedCards) : pendingPatternForUpload' = iedCards[c].id
    /\ UNCHANGED <<iedPatterns, icdCatalog, modal, iedCards, orphanIcds, srvRefs, srvCatalog>>
    /\ IedFrame
    /\ Untouched

\* setupIcdUploadWithAutoLink: change event of #icd-upload; the entries of
\* B are the ones the API accepted, `applied` the links it accepted
IedUploadChange ==
    /\ page = "ied"
    /\ modal = NoModal
    /\ \E B \in ImportableBatches, okPatterns, okCatalog \in BOOLEAN :
        LET targetPattern == pendingPatternForUpload
            uploadedIcds  == SeqOfSet(B)
            reqs == IF targetPattern # "" /\ Len(uploadedIcds) > 0
                    THEN [k \in 1..Len(uploadedIcds) |->
                            [op |-> "link", pattern |-> targetPattern,
                             ref |-> uploadedIcds[k].icd_id]]
                    ELSE <<>>
        IN  \E applied \in SUBSET (1..Len(reqs)) :
                /\ pendingPatternForUpload' = ""
                /\ srvCatalog' = srvCatalog \o uploadedIcds
                /\ srvRefs' = ApplyRequests(srvRefs, reqs, applied, 1)
                /\ icdCatalog' = loadIcdCatalog(okCatalog, srvCatalog')
                /\ iedPatterns' = loadIedPatterns(okPatterns, srvRefs')
                /\ RefreshIedPage
    /\ UNCHANGED modal
    /\ IedFrame
    /\ Untouched

\* unlinkIcd(patternId, icdId) from a row of a card (confirmed by the user)
UnlinkIcd ==
    /\ page = "ied"
    /\ modal = NoModal
    /\ \E c \in 1..Len(iedCards), applied, okPatterns \in BOOLEAN :
        \E r \in 1..Len(iedCards[c].linkedIcds) :
            /\ srvRefs' = IF applied
                          THEN SrvUnlink(srvRefs, iedCards[c].id,
                                         iedCards[c].linkedIcds[r].icd_id)
                          ELSE srvRefs
            /\ iedPatterns' = loadIedPatterns(okPatterns, srvRefs')
            /\ UNCHANGED icdCatalog
            /\ RefreshIedPage
    /\ UNCHANGED <<pendingPatternForUpload, modal, srvCatalog>>
    /\ IedFrame
    /\ Untouched

\* deleteOrphanIcd(icdId) from an orphan card (confirmed by the user); the
\* cards of the patterns are not rendered again
DeleteOrphanIcd ==
    /\ page = "ied"
    /\ modal = NoModal
    /\ \E o \in 1..Len(orphanIcds), okDelete, okCatalog \in BOOLEAN :
        IF okDelete
        THEN /\ srvCatalog' = SrvDeleteIcd(srvCatalog, orphanIcds[o].icd_id)
             /\ icdCatalog' = loadIcdCatalog(okCatalog, srvCatalog')
             /\ orphanIcds' = renderOrphanIcds(iedPatterns, icdCatalog')
        ELSE UNCHANGED <<srvCatalog, icdCatalog, orphanIcds>>
    /\ UNCHANGED <<iedPatterns, pendingPatternForUpload, modal, iedCards, srvRefs>>
    /\ IedFrame
    /\ Untouched

\* showAssignIcdModal(patternId) from the button of a card
ShowAssignIcdModal ==
    /\ page = "ied"
    /\ modal = NoModal
    /\ \E c \in 1..Len(iedCards) :
        modal' = [kind |-> "assign",
                  patternId |-> iedCards[c].id,
                  boxes |-> AssignCheckboxes(iedPatterns, icdCatalog, iedCards[c].id)]
    /\ UNCHANGED <<iedPatterns, icdCatalog, pendingPatternForUpload, iedCards,
                   orphanIcds, srvRefs, srvCatalog>>
    /\ IedFrame
    /\ Untouched

\* the user clicks checkbox k of the assign modal
ClickAssignCheckbox ==
    /\ modal.kind = "assign"
    /\ \E k \in 1..Len(modal.boxes) :
        modal' = [modal EXCEPT !.boxes[k].checked = ~@]
    /\ UNCHANGED <<iedPatterns, icdCatalog, pendingPatternForUpload, iedCards,
                   orphanIcds, srvRefs, srvCatalog>>
    /\ IedFrame
    /\ Untouched

\* saveAssignments(patternId): linkIcd and unlinkIcdApi swallow every
\* failure, `applied` are the requests the API accepted
SaveAssignments ==
    /\ modal.kind = "assign"
    /\ LET reqs == saveAssignmentRequests(modal.boxes, iedPatterns, modal.patternId)
       IN  \E applied \in SUBSET (1..Len(reqs)), okPatterns \in BOOLEAN :
               /\ srvRefs' = ApplyRequests(srvRefs, reqs, applied, 1)
               /\ iedPatterns' = loadIedPatterns(okPatterns, srvRefs')
    /\ UNCHANGED icdCatalog
    /\ RefreshIedPage
    /\ modal' = NoModal
    /\ UNCHANGED <<pendingPatternForUpload, srvCatalog>>
    /\ IedFrame
    /\ Untouched

\* showMoveIcdModal(icdId, currentPatternId) from a row of a card
ShowMoveIcdModal ==
    /\ page = "ied"
    /\ modal = NoModal
    /\ \E c \in 1..Len(iedCards) :
        \E r \in 1..Len(iedCards[c].linkedIcds) :
            modal' = [kind |-> "move",
                      icdId |-> iedCards[c].linkedIcds[r].icd_id,
                      currentPatternId |-> iedCards[c].id,
                      options |-> MoveOptions(iedPatterns, iedCards[c].id)]
    /\ UNCHANGED <<iedPatterns, icdCatalog, pendingPatternForUpload, iedCards,
                   orphanIcds, srvRefs, srvCatalog>>
    /\ IedFrame
    /\ Untouched

\* moveIcd(encodedIcdId, currentPatternId) with the option the user selected
MoveIcd ==
    /\ modal.kind = "move"
    /\ \E newPatternId \in modal.options \cup {""}, okPatterns \in BOOLEAN :
        IF newPatternId = ""
        THEN UNCHANGED <<srvRefs, iedPatterns, iedCards, orphanIcds, modal>>
        ELSE LET icdId == decodeURIComponent(encodeURIComponent(modal.icdId))
                 reqs  == moveIcdRequests(icdId, modal.currentPatternId, newPatternId)
             IN  \E applied \in SUBSET (1..Len(reqs)) :
                     /\ srvRefs' = ApplyRequests(srvRefs, reqs, applied, 1)
                     /\ iedPatterns' = loadIedPatterns(okPatterns, srvRefs')
                     /\ iedCards' = renderIedCards(iedPatterns', icdCatalog, filterLinked)
                     /\ orphanIcds' = renderOrphanIcds(iedPatterns', icdCatalog)
                     /\ modal' = NoModal
    /\ UNCHANGED <<icdCatalog, pendingPatternForUpload, srvCatalog>>
    /\ IedFrame
    /\ Untouched

\* showAssignOrphanModal(icdId) for an orphan card
ShowAssignOrphanModal ==
    /\ page = "ied"
    /\ modal = NoModal
    /\ \E o \in 1..Len(orphanIcds) :
        modal' = [kind |-> "orphan",
                  icdId |-> orphanIcds[o].icd_id,
                  options |-> OrphanOptions(iedPatterns)]
    /\ UNCHANGED <<iedPatterns, icdCatalog, pendingPatternForUpload, iedCards,
                   orphanIcds, srvRefs, srvCatalog>>
    /\ IedFrame
    /\ Untouched

\* assignOrphan(icdId) with the option the user selected
AssignOrphan ==
    /\ modal.kind = "orphan"
    /\ \E patternId \in modal.options \cup {""}, applied, okPatterns \in BOOLEAN :
        IF patternId = ""
        THEN UNCHANGED <<srvRefs, iedPatterns, iedCards, orphanIcds, modal>>
        ELSE /\ srvRefs' = IF applied
                           THEN SrvLink(srvRefs, patternId,
                                        decodeURIComponent(encodeURIComponent(modal.icdId)))
                           ELSE srvRefs
             /\ iedPatterns' = loadIedPatterns(okPatterns, srvRefs')
             /\ iedCards' = renderIedCards(iedPatterns', icdCatalog, filterLinked)
             /\ orphanIcds' = renderOrphanIcds(iedPatterns', icdCatalog)
             /\ modal' = NoModal
    /\ UNCHANGED <<icdCatalog, pendingPatternForUpload, srvCatalog>>
    /\ IedFrame
    /\ Untouched

\* closeModal() of the assign, move and orphan modals
CloseModal ==
    /\ modal.kind \in {"assign", "move", "orphan"}
    /\ modal' = NoModal
    /\ UNCHANGED <<iedPatterns, icdCatalog, pendingPatternForUpload, iedCards,
                   orphanIcds, srvRefs, srvCatalog>>
    /\ IedFrame
    /\ Untouched

Next ==
    \/ OpenLibraryPage
    \/ OpenIedPage
    \/ LibraryUpload
    \/ DeleteIcd
    \/ ShowLinkPatternModal
    \/ ClickPatternCheckbox
    \/ SaveLinkPatterns
    \/ CloseLinkPatternModal
    \/ HandleDrop
    \/ TriggerIcdUpload
    \/ TriggerIcdUploadForPattern
    \/ IedUploadChange
    \/ UnlinkIcd
    \/ DeleteOrphanIcd
    \/ ShowAssignIcdModal
    \/ ClickAssignCheckbox
    \/ SaveAssignments
    \/ ShowMoveIcdModal
    \/ MoveIcd
    \/ ShowAssignOrphanModal
    \/ AssignOrphan
    \/ CloseModal

Spec == Init /\ [][Next]_vars

(***************************************************************************)
(* Specification of the IED / ICD page over any loaded data: the patterns  *)
(* and the catalog the API returned are drawn from bounded sets; the user  *)
(* changes the status filter.                                              *)
(***************************************************************************)

\* catalog entries: two versions of ICD_A_C and one of ICD_A_C2 (the first
\* identifier is contained in the second)
ReconcileEntries ==
    {LibraryEntry(<<"A">>, <<"C">>, <<"V", "1">>),
     LibraryEntry(<<"A">>, <<"C">>, <<"V", "2">>),
     LibraryEntry(<<"A">>, <<"C", "2">>, <<"V", "1">>)}

\* the identifiers a pattern can reference
ReconcileRefs == {e.icd_id : e \in ReconcileEntries}

\* after initIedIcdPage: patterns and catalog loaded, page rendered
InitReconcile ==
    /\ page = "ied"
    /\ srvRefs \in [PatternIds -> SUBSET ReconcileRefs]
    /\ srvCatalog \in UNION {[1..n -> ReconcileEntries] : n \in 0..MaxCatalog}
    /\ iedPatterns = SrvPatterns(srvRefs)
    /\ icdCatalog = srvCatalog
    /\ filterLinked = ""
    /\ iedCards = renderIedCards(iedPatterns, icdCatalog, filterLinked)
    /\ orphanIcds = renderOrphanIcds(iedPatterns, icdCatalog)
    /\ pendingPatternForUpload = ""
    /\ modal = NoModal
    /\ filterType = <<>>
    /\ filterManufacturer = <<>>
    /\ icdCards = <<>>
    /\ versionChoice = NoVersionChoice
    /\ mValue = NULL
    /\ mPattern = NULL
    /\ mCalled = FALSE
    /\ mResult = FALSE
    /\ mFunction = "matchPattern"
    /\ OtherPagesIdle

\* the user picks a value of #filter-linked and the cards are rendered with
\* it (renderIedCards reads the select through getFilteredPatterns)
ChangeLinkedFilter ==
    /\ \E v \in {"", "linked", "unlinked"} :
        /\ v # filterLinked
        /\ filterLinked' = v
        /\ iedCards' = renderIedCards(iedPatterns, icdCatalog, v)
    /\ UNCHANGED <<page, iedPatterns, pendingPatternForUpload, modal, orphanIcds,
                   srvRefs, srvCatalog>>
    /\ UNCHANGED libraryVars
    /\ UNCHANGED matchVars
    /\ UNCHANGED otherVars

\* resetFilters()
ResetFilters ==
    /\ filterLinked' = ""
    /\ iedCards' = renderIedCards(iedPatterns, icdCatalog, "")
    /\ UNCHANGED <<page, iedPatterns, pendingPatternForUpload, modal, orphanIcds,
                   srvRefs, srvCatalog>>
    /\ UNCHANGED libraryVars
    /\ UNCHANGED matchVars
    /\ UNCHANGED otherVars

NextReconcile ==
    \/ ChangeLinkedFilter
    \/ ResetFilters

SpecReconcile == InitReconcile /\ [][NextReconcile]_vars

(***************************************************************************)
(* Specification of the matcher: every (value, pattern) of the bounded     *)
(* input sets is a call of matchPattern.                                   *)
(***************************************************************************)

\* longest filter expression tried
MaxExprLen == 4

\* the characters filter expressions are made of
ExprAlphabet == {"X", "x", "*", "?", ",", "!", "-", "1", "2"}

\* the candidate values tried, null and the empty string included
MatchValues ==
    {NULL, <<>>, <<"X">>, <<"x">>, <<"Y">>, <<"1">>, <<"2">>, <<"X", "1">>,
     <<"1", "-", "2">>, <<"X", "x">>, <<".">>}

\* filter expressions with characters that are operators of regular
\* expressions
MetacharacterPatterns ==
    {<<".">>, <<"!", ".">>, <<"X", ".">>, <<"(">>, <<"[", "X", "]">>, <<"X", "+">>,
     <<"x", "|", "1">>, <<"^", "X">>, <<"X", "$">>}

\* the filter expressions tried, null (absent) included
MatchPatterns == StringsUpTo(ExprAlphabet, MaxExprLen) \cup MetacharacterPatterns \cup {NULL}

InitMatch ==
    /\ mValue \in MatchValues
    /\ mPattern \in MatchPatterns
    /\ mCalled = FALSE
    /\ mResult = FALSE
    /\ mFunction = "matchPattern"
    /\ icdCatalog = <<>>
    /\ filterType = <<>>
    /\ filterManufacturer = <<>>
    /\ icdCards = <<>>
    /\ versionChoice = NoVersionChoice
    /\ page = "library"
    /\ iedPatterns = <<>>
    /\ pendingPatternForUpload = ""
    /\ modal = [kind |-> "none"]
    /\ filterLinked = ""
    /\ iedCards = <<>>
    /\ orphanIcds = <<>>
    /\ srvRefs = [id \in PatternIds |-> {}]
    /\ srvCatalog = <<>>
    /\ OtherPagesIdle

CallMatchPattern ==
    /\ ~mCalled
    /\ mCalled' = TRUE
    /\ mResult' = matchPattern(mValue, mPattern)
    /\ UNCHANGED <<mValue, mPattern, mFunction>>
    /\ UNCHANGED libraryVars
    /\ UNCHANGED linkVars
    /\ UNCHANGED otherVars

NextMatch == CallMatchPattern

SpecMatch == InitMatch /\ [][NextMatch]_vars

(***************************************************************************)
(* Specification of expandRangePattern: every text of the bounded input    *)
(* set is a call of expandRangePattern.                                    *)
(***************************************************************************)

\* longest text handed to expandRangePattern
MaxRangeLen == 5

\* the characters the texts are made of
RangeAlphabet == {"X", "-", "0", "1", "2"}

\* the texts tried
RangePatterns == StringsUpTo(RangeAlphabet, MaxRangeLen)

\* neither page is involved in a call of TemplateManager
NoPageLoaded ==
    /\ icdCatalog = <<>>
    /\ filterType = <<>>
    /\ filterManufacturer = <<>>
    /\ icdCards = <<>>
    /\ versionChoice = NoVersionChoice
    /\ page = "library"
    /\ iedPatterns = <<>>
    /\ pendingPatternForUpload = ""
    /\ modal = [kind |-> "none"]
    /\ filterLinked = ""
    /\ iedCards = <<>>
    /\ orphanIcds = <<>>
    /\ srvRefs = [id \in PatternIds |-> {}]
    /\ srvCatalog = <<>>
    /\ OtherPagesIdle

InitRange ==
    /\ mValue = NULL
    /\ mPattern \in RangePatterns
    /\ mCalled = FALSE
    /\ mResult = <<>>
    /\ mFunction = "expandRangePattern"
    /\ NoPageLoaded

CallExpandRangePattern ==
    /\ ~mCalled
    /\ mFunction = "expandRangePattern"
    /\ mCalled' = TRUE
    /\ mResult' = expandRangePattern(mPattern)
    /\ UNCHANGED <<mValue, mPattern, mFunction>>
    /\ UNCHANGED libraryVars
    /\ UNCHANGED linkVars
    /\ UNCHANGED otherVars

NextRange == CallExpandRangePattern

SpecRange == InitRange /\ [][NextRange]_vars

(***************************************************************************)
(* Specification of matchSinglePattern: every (value, pattern) of the      *)
(* bounded input sets is a call of matchSinglePattern.                     *)
(***************************************************************************)

\* longest value and longest pattern tried besides the named examples
MaxSingleLen == 3

\* the characters of the values and of the patterns
SingleValueAlphabet == {"P", "p", "1", "\n"}
SinglePatternAlphabet == {"P", "*", "?", "1", "."}

\* the values tried: null, short strings, and the logical node names
SingleValues ==
    StringsUpTo(SingleValueAlphabet, MaxSingleLen) \cup
    {NULL,
     <<"P", "D", "I", "S">>, <<"P", "D", "I", "S", "1">>,
     <<"P", "D", "I", "S", "2", "2">>, <<"P", "D", "I", "S", "1", "2">>,
     <<"X", "P", "D", "I", "S", "1">>}

\* the patterns tried: short patterns and the patterns of logical node names
SinglePatterns ==
    StringsUpTo(SinglePatternAlphabet, MaxSingleLen) \cup
    {<<"p", "d", "i", "s", "*">>, <<"P", "D", "I", "S", "*">>,
     <<"P", "D", "I", "S", "?">>}

InitSingle ==
    /\ mValue \in SingleValues
    /\ mPattern \in SinglePatterns
    /\ mCalled = FALSE
    /\ mResult = FALSE
    /\ mFunction = "matchSinglePattern"
    /\ NoPageLoaded

CallMatchSinglePattern ==
    /\ ~mCalled
    /\ mFunction = "matchSinglePattern"
    /\ mCalled' = TRUE
    /\ mResult' = matchSinglePattern(mValue, mPattern)
    /\ UNCHANGED <<mValue, mPattern, mFunction>>
    /\ UNCHANGED libraryVars
    /\ UNCHANGED linkVars
    /\ UNCHANGED otherVars

NextSingle == CallMatchSinglePattern

SpecSingle == InitSingle /\ [][NextSingle]_vars

(***************************************************************************)
(* Specification of getActiveVersion: every card of the bounded input set  *)
(* is a call of getActiveVersion.                                          *)
(***************************************************************************)

\* most entries in the versions list of a card
MaxVersions == 3

\* the entries a versions list is made of: two files of version V1 and one
\* of version V2
VersionEntries ==
    {[version |-> <<"V", "1">>, filename |-> <<"a">>, path |-> <<"/", "a">>],
     [version |-> <<"V", "1">>, filename |-> <<"b">>, path |-> <<"/", "b">>],
     [version |-> <<"V", "2">>, filename |-> <<"c">>, path |-> <<"/", "c">>]}

\* the cards tried: active_version is a version of the list, one that is
\* not in it, or absent
ActiveCards ==
    {[icd_id |-> <<"I", "C", "D", "_", "A", "_", "C">>, ied_type |-> <<"A">>,
      manufacturer |-> <<"C">>, active_version |-> a, versions |-> vs] :
        a \in {<<"V", "1">>, <<"V", "2">>, <<"V", "3">>, NULL},
        vs \in UNION {[1..n -> VersionEntries] : n \in 0..MaxVersions}}

InitActive ==
    /\ mValue \in ActiveCards
    /\ mPattern = NULL
    /\ mCalled = FALSE
    /\ mResult = NULL
    /\ mFunction = "getActiveVersion"
    /\ NoPageLoaded

CallGetActiveVersion ==
    /\ ~mCalled
    /\ mFunction = "getActiveVersion"
    /\ mCalled' = TRUE
    /\ mResult' = getActiveVersion(mValue)
    /\ UNCHANGED <<mValue, mPattern, mFunction>>
    /\ UNCHANGED libraryVars
    /\ UNCHANGED linkVars
    /\ UNCHANGED otherVars

NextActive == CallGetActiveVersion

SpecActive == InitActive /\ [][NextActive]_vars

(***************************************************************************)
(* Specification of the calls of the API from the IED / ICD page: from any *)
(* store, linkIcd, unlinkIcdApi, linkIcdToPattern and saveAssignments are  *)
(* called for the patterns P1 and V1, for an unknown pattern id, and for   *)
(* any ICD.  mValue is the last call, with the store it found; mPattern is *)
(* the call of linkIcd that came right before it, if that is what came     *)
(* before it.                                                              *)
(***************************************************************************)

\* the catalog of the page
ApiCatalog ==
    <<LibraryEntry(<<"A">>, <<"C">>, <<"V", "1">>),
      LibraryEntry(<<"A">>, <<"C", "2">>, <<"V", "1">>)>>

ApiIcdIds == {ApiCatalog[k].icd_id : k \in 1..Len(ApiCatalog)}

\* an id that no pattern of the store has
UnknownPatternId == "P9"

\* the pattern ids the calls are made with; the pattern P2 is never named
ApiTargets == {"P1", "V1", UnknownPatternId}

\* the stores the calls start from
ApiStores ==
    {refs \in [PatternIds -> SUBSET ApiIcdIds] : refs["P2"] = {ApiCatalog[1].icd_id}}

NoCall ==
    [fn |-> "none", patternId |-> "", icdId |-> <<>>,
     before |-> [id \in PatternIds |-> {}], toggled |-> {}]

InitApi ==
    /\ page = "ied"
    /\ srvRefs \in ApiStores
    /\ srvCatalog = ApiCatalog
    /\ iedPatterns = SrvPatterns(srvRefs)
    /\ icdCatalog = srvCatalog
    /\ filterLinked = ""
    /\ iedCards = renderIedCards(iedPatterns, icdCatalog, filterLinked)
    /\ orphanIcds = renderOrphanIcds(iedPatterns, icdCatalog)
    /\ pendingPatternForUpload = ""
    /\ modal = NoModal
    /\ filterType = <<>>
    /\ filterManufacturer = <<>>
    /\ icdCards = <<>>
    /\ versionChoice = NoVersionChoice
    /\ mValue = NoCall
    /\ mPattern = NoCall
    /\ mCalled = FALSE
    /\ mResult = [thrown |-> FALSE, toast |-> "none"]
    /\ mFunction = "none"
    /\ OtherPagesIdle

\* what no call of the API changes
ApiFrame ==
    /\ UNCHANGED <<page, icdCatalog, srvCatalog, filterLinked, pendingPatternForUpload,
                   modal, filterType, filterManufacturer, icdCards, versionChoice>>
    /\ UNCHANGED otherVars

CallLinkIcd ==
    \E patternId \in ApiTargets, icdId \in ApiIcdIds :
        LET r == linkIcd(srvRefs, patternId, icdId)
        IN  /\ srvRefs' = r.refs
            /\ mFunction' = "linkIcd"
            /\ mValue' = [fn |-> "linkIcd", patternId |-> patternId, icdId |-> icdId,
                          before |-> srvRefs, toggled |-> {}]
            /\ mPattern' = NoCall
            /\ mResult' = [thrown |-> r.thrown, toast |-> r.toast]
            /\ mCalled' = TRUE
            /\ UNCHANGED <<iedPatterns, iedCards, orphanIcds>>
            /\ ApiFrame

CallUnlinkIcdApi ==
    \E patternId \in ApiTargets, icdId \in ApiIcdIds :
        LET r == unlinkIcdApi(srvRefs, patternId, icdId)
        IN  /\ srvRefs' = r.refs
            /\ mFunction' = "unlinkIcdApi"
            /\ mValue' = [fn |-> "unlinkIcdApi", patternId |-> patternId, icdId |-> icdId,
                          before |-> srvRefs, toggled |-> {}]
            /\ mResult' = [thrown |-> r.thrown, toast |-> r.toast]
            /\ mCalled' = TRUE
            /\ mPattern' = IF mValue.fn = "linkIcd" THEN mValue ELSE NoCall
            /\ UNCHANGED <<iedPatterns, iedCards, orphanIcds>>
            /\ ApiFrame

\* linkIcdToPattern reloads the patterns and renders when the response is ok
CallLinkIcdToPattern ==
    \E patternId \in ApiTargets, icdId \in ApiIcdIds :
        LET r == linkIcdToPattern(srvRefs, icdId, patternId)
        IN  /\ ApiFrame
            /\ srvRefs' = r.refs
            /\ mFunction' = "linkIcdToPattern"
            /\ mValue' = [fn |-> "linkIcdToPattern", patternId |-> patternId,
                          icdId |-> icdId, before |-> srvRefs, toggled |-> {}]
            /\ mPattern' = NoCall
            /\ mResult' = [thrown |-> r.thrown, toast |-> r.toast]
            /\ mCalled' = TRUE
            /\ IF r.toast = "success"
               THEN /\ iedPatterns' = loadIedPatterns(TRUE, srvRefs')
                    /\ RefreshIedPage
               ELSE UNCHANGED <<iedPatterns, iedCards, orphanIcds>>

\* saveAssignments(patternId) on the modal showAssignIcdModal built from the
\* page's patterns, after the user clicked the checkboxes `toggled`
CallSaveAssignments ==
    \E patternId \in ApiTargets \cap PatternIds :
        LET opened == AssignCheckboxes(iedPatterns, icdCatalog, patternId)
        IN  \E toggled \in SUBSET (1..Len(opened)) :
            LET boxes == [k \in 1..Len(opened) |->
                            IF k \in toggled
                            THEN [opened[k] EXCEPT !.checked = ~@]
                            ELSE opened[k]]
                reqs  == saveAssignmentRequests(boxes, iedPatterns, patternId)
            IN  /\ ApiFrame
                /\ srvRefs' = ApplyRequests(srvRefs, reqs, 1..Len(reqs), 1)
                /\ iedPatterns' = loadIedPatterns(TRUE, srvRefs')
                /\ RefreshIedPage
                /\ mFunction' = "saveAssignments"
                /\ mValue' = [fn |-> "saveAssignments", patternId |-> patternId,
                              icdId |-> <<>>, before |-> srvRefs, toggled |-> toggled]
                /\ mPattern' = NoCall
                /\ mResult' = [thrown |-> FALSE, toast |-> "none"]
                /\ mCalled' = TRUE

NextApi ==
    \/ CallLinkIcd
    \/ CallUnlinkIcdApi
    \/ CallLinkIcdToPattern
    \/ CallSaveAssignments

SpecApi == InitApi /\ [][NextApi]_vars

(***************************************************************************)
(* Specification of matchHierarchy: every item and every filter of the     *)
(* bounded input sets is a call of matchHierarchy.                         *)
(***************************************************************************)

\* the records with some of the properties `fields`, each with a value of
\* `values`
PartialRecords(fields, values) ==
    UNION {[present -> values] : present \in SUBSET fields}

\* the names an item has at a level
HierarchyValues == {<<"X">>, <<"Y">>}

\* the expressions a filter has for a level
HierarchyPatterns == {<<>>, <<"*">>, <<"X">>, <<"!", "X">>}

InitHierarchy ==
    /\ mValue \in PartialRecords(HierarchyLevels, HierarchyValues)
    /\ mPattern \in PartialRecords({PatternOf(l) : l \in HierarchyLevels}, HierarchyPatterns)
    /\ mCalled = FALSE
    /\ mResult = FALSE
    /\ mFunction = "matchHierarchy"
    /\ NoPageLoaded

CallMatchHierarchy ==
    /\ ~mCalled
    /\ mFunction = "matchHierarchy"
    /\ mCalled' = TRUE
    /\ mResult' = matchHierarchy(mValue, mPattern)
    /\ UNCHANGED <<mValue, mPattern, mFunction>>
    /\ UNCHANGED libraryVars
    /\ UNCHANGED linkVars
    /\ UNCHANGED otherVars

NextHierarchy == CallMatchHierarchy

SpecHierarchy == InitHierarchy /\ [][NextHierarchy]_vars

(***************************************************************************)
(* Interleaved handlers                                                    *)
(***************************************************************************)

\* most handlers running at a time
MaxTasks == 2

\* the tasks without task t, which has returned
RemoveAt(seq, t) == SubSeq(seq, 1, t - 1) \o SubSeq(seq, t + 1, Len(seq))

(***************************************************************************)
(* ISA page                                                                *)
(***************************************************************************)

\* file.type_refs, undefined when the file has no such property
TypeRefs(file) == Get(file, "type_refs")

\* getFilesForType(typeId)
getFilesForType(catalog, typeId) ==
    SelectSeq(catalog, LAMBDA file :
        TypeRefs(file) # NULL /\ typeId \in Range(TypeRefs(file)))

\* getOrphanFiles()
getOrphanFiles(catalog) ==
    SelectSeq(catalog, LAMBDA file :
        TypeRefs(file) = NULL \/ Len(TypeRefs(file)) = 0)

\* renderIsaTypeCards() with the three filters empty: one card per type, with
\* the files renderIsaCard lists in it
renderIsaTypeCards(types, catalog) ==
    [k \in 1..Len(types) |->
        [id |-> types[k].id, files |-> getFilesForType(catalog, types[k].id)]]

\* renderIsaTypeCards(); renderOrphanFiles(); updateStats()
RenderIsaPage(types, catalog) ==
    [cards       |-> renderIsaTypeCards(types, catalog),
     orphans     |-> getOrphanFiles(catalog),
     linkedCount |-> Len(catalog) - Len(getOrphanFiles(catalog))]

(***************************************************************************)
(* Specification of the ISA page: the types and the files are what the API *)
(* answers, uploads run as interleaved handlers.                           *)
(***************************************************************************)

\* most files in the catalog of the ISA page
MaxIsaFiles == 2

\* most files selected for one upload
MaxBatch == 2

IsaTypeIds == <<"T1", "T2">>

IsaFileIds == <<"F1", "F2", "F3">>

\* the answers of GET /api/isa/types: both types, or none (also what
\* loadIsaTypes leaves after a failed request)
IsaTypeLists == {<<>>, [k \in 1..2 |-> [id |-> IsaTypeIds[k]]]}

\* the type_refs of a file in an answer of GET /api/isa/
IsaTypeRefs == {<<>>, <<"T1">>, <<"T1", "T2">>}

\* the answers of GET /api/isa/: files with and without type_refs; the empty
\* list is also what loadIsaCatalog leaves after a failed request
IsaCatalogs ==
    UNION {
        {[k \in 1..n |->
            IF refs[k] = NULL THEN [id |-> IsaFileIds[k]]
            ELSE [id |-> IsaFileIds[k], type_refs |-> refs[k]]] :
         refs \in [1..n -> IsaTypeRefs \cup {NULL}]} :
        n \in 0..MaxIsaFiles}

\* the ICD pages are not loaded
IcdPagesClosed ==
    /\ icdCatalog = <<>>
    /\ filterType = <<>>
    /\ filterManufacturer = <<>>
    /\ icdCards = <<>>
    /\ versionChoice = NoVersionChoice
    /\ iedPatterns = <<>>
    /\ pendingPatternForUpload = ""
    /\ modal = [kind |-> "none"]
    /\ filterLinked = ""
    /\ iedCards = <<>>
    /\ orphanIcds = <<>>
    /\ srvRefs = [id \in PatternIds |-> {}]
    /\ srvCatalog = <<>>

\* the ICD pages are not loaded, no pure function is under call
NoIcdPage ==
    /\ IcdPagesClosed
    /\ mValue = NULL
    /\ mPattern = NULL
    /\ mCalled = FALSE
    /\ mResult = FALSE
    /\ mFunction = "none"

IcdPagesFrame ==
    /\ UNCHANGED matchVars
    /\ UNCHANGED libraryVars
    /\ UNCHANGED linkVars

\* what no handler of the ISA page assigns
IsaFrame ==
    /\ IcdPagesFrame
    /\ UNCHANGED templateVars
    /\ UNCHANGED editorVars

\* initIsaPage()
InitIsa ==
    /\ page = "isa"
    /\ isaTypes \in IsaTypeLists
    /\ isaCatalog \in IsaCatalogs
    /\ pendingTypeForUpload = ""
    /\ isaView = RenderIsaPage(isaTypes, isaCatalog)
    /\ tasks = <<>>
    /\ NoIcdPage
    /\ NoTemplateManager
    /\ NoEditor

\* linkFileToType(fileId, typeId) from the drop of an orphan card on a type
\* card, answered ok: the catalog is loaded again and the page rendered
LinkFileToType ==
    /\ Len(isaView.orphans) > 0
    /\ Len(isaView.cards) > 0
    /\ \E answer \in IsaCatalogs :
        /\ isaCatalog' = answer
        /\ isaView' = RenderIsaPage(isaTypes, answer)
    /\ UNCHANGED <<isaTypes, pendingTypeForUpload, tasks>>
    /\ IsaFrame

\* unlinkFile(fileId, typeId) from a file row of a type card, confirmed and
\* answered ok
UnlinkFile ==
    /\ \E c \in 1..Len(isaView.cards) : Len(isaView.cards[c].files) > 0
    /\ \E answer \in IsaCatalogs :
        /\ isaCatalog' = answer
        /\ isaView' = RenderIsaPage(isaTypes, answer)
    /\ UNCHANGED <<isaTypes, pendingTypeForUpload, tasks>>
    /\ IsaFrame

\* triggerIsaUpload(): the import button of the page
TriggerIsaUpload ==
    /\ pendingTypeForUpload' = ""
    /\ pendingTypeForUpload # ""
    /\ UNCHANGED <<isaTypes, isaCatalog, isaView, tasks>>
    /\ IsaFrame

\* triggerIsaUploadForType(typeId): the import button of a type card
TriggerIsaUploadForType ==
    /\ \E c \in 1..Len(isaView.cards) :
        /\ pendingTypeForUpload # isaView.cards[c].id
        /\ pendingTypeForUpload' = isaView.cards[c].id
    /\ UNCHANGED <<isaTypes, isaCatalog, isaView, tasks>>
    /\ IsaFrame

\* the change event of #isa-upload with `count` files selected: the handler
\* builds the form of the first file and awaits its upload.  typeAtChange
\* remembers the type that was pending when the event fired, sent lists the
\* type_id of every form built so far ("" for a form without type_id)
IsaUploadChange ==
    /\ Len(tasks) < MaxTasks
    /\ \E count \in 1..MaxBatch :
        tasks' = Append(tasks, [handler      |-> "isaUpload",
                                typeAtChange |-> pendingTypeForUpload,
                                sent         |-> <<pendingTypeForUpload>>,
                                left         |-> count - 1,
                                awaits       |-> "upload"])
    /\ UNCHANGED <<isaTypes, isaCatalog, pendingTypeForUpload, isaView>>
    /\ IsaFrame

\* POST /api/isa/upload is answered (ok or not): the loop goes on with the
\* next file, whose form takes the type pending now; after the last file the
\* handler awaits loadIsaCatalog()
IsaUploadAnswered ==
    /\ \E t \in 1..Len(tasks) :
        /\ tasks[t].awaits = "upload"
        /\ tasks' = [tasks EXCEPT ![t] =
                IF @.left > 0
                THEN [@ EXCEPT !.sent = Append(@, pendingTypeForUpload),
                               !.left = @ - 1]
                ELSE [@ EXCEPT !.awaits = "catalog"]]
    /\ UNCHANGED <<isaTypes, isaCatalog, pendingTypeForUpload, isaView>>
    /\ IsaFrame

\* loadIsaCatalog() of the change handler is answered: the page is rendered,
\* pendingTypeForUpload is reset and the handler returns
IsaUploadEnds ==
    /\ \E t \in 1..Len(tasks), answer \in IsaCatalogs :
        /\ tasks[t].awaits = "catalog"
        /\ isaCatalog' = answer
        /\ isaView' = RenderIsaPage(isaTypes, answer)
        /\ pendingTypeForUpload' = ""
        /\ tasks' = RemoveAt(tasks, t)
    /\ UNCHANGED isaTypes
    /\ IsaFrame

NextIsa ==
    \/ LinkFileToType
    \/ UnlinkFile
    \/ TriggerIsaUpload
    \/ TriggerIsaUploadForType
    \/ IsaUploadChange
    \/ IsaUploadAnswered
    \/ IsaUploadEnds

SpecIsa == InitIsa /\ [][NextIsa]_vars

(***************************************************************************)
(* TemplateManager: the array of templates.  An element of the array is a  *)
(* reference to an object; objects[r] holds the properties of the object   *)
(* with reference r.  Of the properties only id takes part in the methods' *)
(* decisions; name, created_at and updated_at are left out.                *)
(***************************************************************************)

\* the ids of the elements of the array, in its order
IdsOf(tpls, objs) == [k \in 1..Len(tpls) |-> objs[tpls[k]].id]

\* this.templates.findIndex(t => t.id === templateId), 0 for -1
FindTemplateIndex(tpls, objs, templateId) ==
    IF \E k \in 1..Len(tpls) : objs[tpls[k]].id = templateId
    THEN CHOOSE k \in 1..Len(tpls) :
            /\ objs[tpls[k]].id = templateId
            /\ \A j \in 1..(k - 1) : objs[tpls[j]].id # templateId
    ELSE 0

\* `template_${Date.now()}`
GeneratedId(clock) == <<"t", "e", "m", "p", "l", "a", "t", "e", "_">> \o NumToString(clock)

\* `${templateId}_copy_${Date.now()}`
CopyId(templateId, clock) ==
    templateId \o <<"_", "c", "o", "p", "y", "_">> \o NumToString(clock)

\* a changed createTemplate that pushes without looking for the id
createTemplate_NoLookup(tpls, objs, clock, ref) ==
    LET withId == IF ~Truthy(objs[ref].id)
                  THEN [objs EXCEPT ![ref].id = GeneratedId(clock)]
                  ELSE objs
    IN  [templates |-> Append(tpls, ref), objects |-> withId, thrown |-> FALSE]

\* createTemplate(templateData), templateData the object with reference ref
createTemplate(tpls, objs, clock, ref) ==
    LET withId == IF ~Truthy(objs[ref].id)
                  THEN [objs EXCEPT ![ref].id = GeneratedId(clock)]
                  ELSE objs
    IN  IF FindTemplateIndex(tpls, withId, withId[ref].id) # 0
        THEN [templates |-> tpls, objects |-> withId, thrown |-> TRUE]
        ELSE [templates |-> Append(tpls, ref), objects |-> withId, thrown |-> FALSE]

\* updateTemplate(templateId, templateData): the id is assigned to the
\* object handed in, and the element becomes that object
updateTemplate(tpls, objs, templateId, ref) ==
    LET index == FindTemplateIndex(tpls, objs, templateId)
    IN  IF index = 0
        THEN [templates |-> tpls, objects |-> objs, thrown |-> TRUE]
        ELSE [templates |-> [tpls EXCEPT ![index] = ref],
              objects   |-> [objs EXCEPT ![ref].id = templateId],
              thrown    |-> FALSE]

\* deleteTemplate(templateId)
deleteTemplate(tpls, objs, templateId) ==
    LET index == FindTemplateIndex(tpls, objs, templateId)
    IN  IF index = 0
        THEN [templates |-> tpls, objects |-> objs, thrown |-> TRUE]
        ELSE [templates |-> RemoveAt(tpls, index), objects |-> objs, thrown |-> FALSE]

\* duplicateTemplate(templateId): the copy is a new object
duplicateTemplate(tpls, objs, clock, templateId) ==
    IF FindTemplateIndex(tpls, objs, templateId) = 0
    THEN [templates |-> tpls, objects |-> objs, thrown |-> TRUE]
    ELSE createTemplate(tpls, Append(objs, [id |-> CopyId(templateId, clock)]), clock,
                        Len(objs) + 1)

(***************************************************************************)
(* Specification of TemplateManager: calls of the four methods on a        *)
(* manager whose array starts with pairwise distinct ids.  The object      *)
(* handed to createTemplate or updateTemplate is a new one or one that     *)
(* getTemplate returned, an element of the array.                          *)
(***************************************************************************)

\* most template objects ever made
MaxObjects == 4

\* last value of Date.now()
MaxClock == 2

\* the ids callers name, and the ids of the templates in localStorage
TemplateIds == {<<"a">>, <<"b">>}

InitTemplates ==
    /\ objects = <<[id |-> <<"a">>], [id |-> <<"b">>]>>
    /\ templates \in {<<>>, <<1>>, <<1, 2>>}
    /\ now = 1
    /\ mValue = TRUE
    /\ mPattern = [present |-> FALSE]
    /\ mCalled = FALSE
    /\ mResult = FALSE
    /\ mFunction = "none"
    /\ page = "templates"
    /\ IcdPagesClosed
    /\ tasks = <<>>
    /\ NoIsaPage
    /\ NoEditor

TemplatesFrame ==
    /\ UNCHANGED libraryVars
    /\ UNCHANGED linkVars
    /\ UNCHANGED <<tasks, isaVars, editorVars>>

\* the ids a caller can name: the ones it knows and the ones in the array
CallIds == TemplateIds \cup Range(IdsOf(templates, objects))

\* a method has returned or thrown: the record of the call (mPattern: was
\* the id named in the array; mValue: are the ids of the array what they
\* were; mResult: has the method thrown)
Called(function, templateId, r) ==
    /\ templates' = r.templates
    /\ objects' = r.objects
    /\ mFunction' = function
    /\ mPattern' = [present |-> FindTemplateIndex(templates, objects, templateId) # 0]
    /\ mValue' = (IdsOf(r.templates, r.objects) = IdsOf(templates, objects))
    /\ mResult' = r.thrown
    /\ mCalled' = TRUE
    /\ UNCHANGED now
    /\ TemplatesFrame

\* Date.now() has moved on
ClockTicks ==
    /\ now < MaxClock
    /\ now' = now + 1
    /\ UNCHANGED <<templates, objects>>
    /\ UNCHANGED matchVars
    /\ TemplatesFrame

\* createTemplate with a new object, with or without id
CallCreateTemplateNew ==
    /\ Len(objects) < MaxObjects
    /\ \E id \in TemplateIds \cup {NULL} :
        Called("createTemplate",
               IF id = NULL THEN GeneratedId(now) ELSE id,
               createTemplate(templates, Append(objects, [id |-> id]), now,
                              Len(objects) + 1))

\* createTemplate with an object that getTemplate returned
CallCreateTemplateHeld ==
    \E ref \in Range(templates) :
        Called("createTemplate", objects[ref].id,
               createTemplate(templates, objects, now, ref))

\* updateTemplate with a new object
CallUpdateTemplateNew ==
    /\ Len(objects) < MaxObjects
    /\ \E templateId \in CallIds, id \in TemplateIds \cup {NULL} :
        Called("updateTemplate", templateId,
               updateTemplate(templates, Append(objects, [id |-> id]), templateId,
                              Len(objects) + 1))

\* updateTemplate with an object that getTemplate returned
CallUpdateTemplateHeld ==
    \E templateId \in CallIds, ref \in Range(templates) :
        Called("updateTemplate", templateId,
               updateTemplate(templates, objects, templateId, ref))

CallDeleteTemplate ==
    \E templateId \in CallIds :
        Called("deleteTemplate", templateId,
               deleteTemplate(templates, objects, templateId))

CallDuplicateTemplate ==
    /\ Len(objects) < MaxObjects
    /\ \E templateId \in CallIds :
        Called("duplicateTemplate", templateId,
               duplicateTemplate(templates, objects, now, templateId))

NextTemplates ==
    \/ ClockTicks
    \/ CallCreateTemplateNew
    \/ CallCreateTemplateHeld
    \/ CallUpdateTemplateNew
    \/ CallUpdateTemplateHeld
    \/ CallDeleteTemplate
    \/ CallDuplicateTemplate

SpecTemplates == InitTemplates /\ [][NextTemplates]_vars

(***************************************************************************)
(* Test editor.  Ids and names of tests are texts (sequences of            *)
(* characters); the values of the selects are pattern ids, LD names, LN    *)
(* classes and instances, "" for the placeholder option.  Of a test only   *)
(* the properties the form holds are modelled (description and the lists   *)
(* of steps, files and so on are handled like name).                       *)
(***************************************************************************)

\* TYPE_PREFIX[type]
TYPE_PREFIX(type) ==
    CASE type = "ru"  -> <<"R", "U">>
      [] type = "mvs" -> <<"M", "V", "S">>
      [] type = "cvs" -> <<"C", "V", "S">>
      [] OTHER        -> <<"R", "U">>

\* getSavedTests(type)
getSavedTests(st, type) == st[type]

\* setSavedTests(type, tests)
setSavedTests(st, type, tests) == [st EXCEPT ![type] = tests]

\* tests.findIndex(t => t.id === id), 0 for -1
FindTestIndex(tests, id) ==
    IF \E k \in 1..Len(tests) : tests[k].id = id
    THEN CHOOSE k \in 1..Len(tests) :
            /\ tests[k].id = id
            /\ \A j \in 1..(k - 1) : tests[j].id # id
    ELSE 0

\* the while loop of makeUniqueId: the first free `${baseId}_${counter}`
RECURSIVE FreeCandidate(_, _, _)
FreeCandidate(tests, baseId, counter) ==
    LET candidate == baseId \o <<"_">> \o NumToString(counter)
    IN  IF FindTestIndex(tests, candidate) = 0 THEN candidate
        ELSE FreeCandidate(tests, baseId, counter + 1)

\* makeUniqueId(baseId, type)
makeUniqueId(st, baseId, type) ==
    IF FindTestIndex(getSavedTests(st, type), baseId) = 0 THEN baseId
    ELSE FreeCandidate(getSavedTests(st, type), baseId, 2)

\* `${prefix}-${generateRandomId()}` made unique, for the random text drawn
NewTestId(st, type, random) ==
    makeUniqueId(st, TYPE_PREFIX(type) \o <<"-">> \o random, type)

\* a select element: the values of its options after the placeholder, its
\* value, and what its dataset holds (<<>>: nothing)
EmptySelect == [options |-> <<>>, value |-> "", data |-> <<>>]

\* resetSelect(selectElement, placeholder): the dataset is not touched
resetSelect(select) == [select EXCEPT !.options = <<>>, !.value = ""]

\* select.value = v: a value that no option has leaves the select on no
\* option, and its value reads ""
SetValue(select, v) ==
    [select EXCEPT !.value = IF v \in Range(select.options) THEN v ELSE ""]

\* the elements of `order` that are in `values`: [...new Set(values)].sort()
SortedUnique(values, order) == SelectSeq(order, LAMBDA x : x \in values)

\* sort order of the LD names, of the LN classes and of the instances
LdOrder == <<"LDA", "LDB">>

LnOrder == <<"LNA", "LNB">>

InstOrder == <<"1", "2">>

\* populateIedSelect(selectElement): the patterns without parent, by name
populateIedSelect(select, patterns) ==
    LET parentPatterns == SortBy(SelectSeq(patterns, LAMBDA q : q.parent = ""),
                                 "id", DisplayOrder)
    IN  [select EXCEPT !.options = [k \in 1..Len(parentPatterns) |-> parentPatterns[k].id],
                       !.value = ""]

\* iedPatterns.find(p => p.id === patternId): is there one, and which
HasPattern(patterns, patternId) == \E k \in 1..Len(patterns) : patterns[k].id = patternId

PatternById(patterns, patternId) ==
    patterns[CHOOSE k \in 1..Len(patterns) :
                /\ patterns[k].id = patternId
                /\ \A j \in 1..(k - 1) : patterns[j].id # patternId]

\* onIedChange() up to its call of loadLdsForPattern: the form, and the id
\* of the pattern whose LDs are to be loaded ("" when it returns before)
onIedChange(f, patterns) ==
    LET patternId == f.ied.value
        cleared   == [f EXCEPT !.variant = resetSelect(@), !.ld = resetSelect(@),
                               !.ln = resetSelect(@), !.lninst = resetSelect(@)]
        variants  == SortBy(SelectSeq(patterns, LAMBDA q : q.parent = patternId),
                            "id", DisplayOrder)
    IN  IF patternId = "" \/ ~HasPattern(patterns, patternId)
        THEN [form |-> cleared, load |-> ""]
        ELSE [form |-> [cleared EXCEPT !.variant.options =
                            [k \in 1..Len(variants) |-> variants[k].id]],
              load |-> patternId]

\* onVariantChange() up to its call of loadLdsForPattern
onVariantChange(f, patterns) ==
    LET cleared   == [f EXCEPT !.ld = resetSelect(@), !.ln = resetSelect(@),
                               !.lninst = resetSelect(@)]
        patternId == IF f.variant.value # "" THEN f.variant.value ELSE f.ied.value
    IN  IF patternId = "" \/ ~HasPattern(patterns, patternId)
        THEN [form |-> cleared, load |-> ""]
        ELSE [form |-> cleared, load |-> patternId]

\* the allLds.set of loadLdsForPattern for the LDs of one ICD: a name
\* already in the map keeps its first entry
RECURSIVE AddLds(_, _, _, _)
AddLds(allLds, icdId, lds, i) ==
    IF i > Len(lds) THEN allLds
    ELSE IF \E k \in 1..Len(allLds) : allLds[k].ldName = lds[i].name
         THEN AddLds(allLds, icdId, lds, i + 1)
         ELSE AddLds(Append(allLds, [ldName |-> lds[i].name, icdId |-> icdId,
                                     lns |-> lds[i].lns]),
                     icdId, lds, i + 1)

\* what GET /data/icd/${path} answers for an ICD: its LDs with their LNs
IcdDetails(icdId) ==
    CASE icdId = "ICD_A" ->
            <<[name |-> "LDA", lns |-> <<[ln_class |-> "LNA", lninst |-> "1"]>>]>>
      [] icdId = "ICD_B" ->
            <<[name |-> "LDB", lns |-> <<[ln_class |-> "LNB", lninst |-> "1"],
                                         [ln_class |-> "LNB", lninst |-> "2"]>>]>>
      [] OTHER -> <<>>

\* loadIcdDetails(icdId) has to fetch: the ICD is not in the cache and the
\* catalog has an entry with a path for it
NeedsFetch(icdId, cache, catalog) ==
    /\ icdId \notin cache
    /\ \E k \in 1..Len(catalog) : catalog[k].icd_id = icdId /\ Truthy(catalog[k].path)

\* the for loop of loadLdsForPattern as far as it runs without a fetch: the
\* refs left (the first of them to be fetched) and the map so far
RECURSIVE LdsProgress(_, _, _, _)
LdsProgress(refs, allLds, cache, catalog) ==
    IF refs = <<>> THEN [refs |-> <<>>, allLds |-> allLds]
    ELSE IF Head(refs) \in cache
         THEN LdsProgress(Tail(refs), AddLds(allLds, Head(refs), IcdDetails(Head(refs)), 1),
                          cache, catalog)
    ELSE IF ~NeedsFetch(Head(refs), cache, catalog)
         THEN LdsProgress(Tail(refs), allLds, cache, catalog)
    ELSE [refs |-> refs, allLds |-> allLds]

\* the end of loadLdsForPattern: the LD select is filled from the map
FinishLds(f, allLds) ==
    IF allLds = <<>>
    THEN [f EXCEPT !.ld = resetSelect(@)]
    ELSE [f EXCEPT !.ld = [options |-> SortedUnique({allLds[k].ldName : k \in 1..Len(allLds)},
                                                    LdOrder),
                           value   |-> "",
                           data    |-> allLds]]

\* loadLdsForPattern(pattern) up to its first fetch: the form, and the refs
\* left and the map so far when a fetch is awaited (refs <<>>: it returned)
loadLdsForPattern(f, pattern, cache, catalog) ==
    IF pattern.icd_refs = <<>>
    THEN [form |-> [f EXCEPT !.ld = resetSelect(@)], refs |-> <<>>, allLds |-> <<>>]
    ELSE LET progress == LdsProgress(pattern.icd_refs, <<>>, cache, catalog)
         IN  IF progress.refs = <<>>
             THEN [form |-> FinishLds(f, progress.allLds), refs |-> <<>>, allLds |-> <<>>]
             ELSE [form |-> f, refs |-> progress.refs, allLds |-> progress.allLds]

\* onLdChange()
onLdChange(f) ==
    LET ldName  == f.ld.value
        cleared == [f EXCEPT !.ln = resetSelect(@), !.lninst = resetSelect(@)]
        ldsData == f.ld.data
    IN  IF ldName = "" \/ ldsData = <<>> THEN cleared
        ELSE IF ~\E k \in 1..Len(ldsData) : ldsData[k].ldName = ldName THEN cleared
        ELSE LET ldData == ldsData[CHOOSE k \in 1..Len(ldsData) : ldsData[k].ldName = ldName]
             IN  [cleared EXCEPT !.ln =
                    [options |-> SortedUnique({ldData.lns[k].ln_class :
                                                  k \in 1..Len(ldData.lns)}, LnOrder),
                     value   |-> "",
                     data    |-> ldData.lns]]

\* onLnChange(): a single instance is selected at once
onLnChange(f) ==
    LET lnClass   == f.ln.value
        cleared   == [f EXCEPT !.lninst = resetSelect(@)]
        lnsData   == f.ln.data
        instances == SortedUnique({lnsData[k].lninst :
                                      k \in {n \in 1..Len(lnsData) :
                                                lnsData[n].ln_class = lnClass}},
                                  InstOrder)
    IN  IF lnClass = "" \/ lnsData = <<>> THEN cleared
        ELSE [cleared EXCEPT !.lninst =
                [options |-> instances,
                 value   |-> IF Len(instances) = 1 THEN instances[1] ELSE "",
                 data    |-> @.data]]

\* collectFormData()
collectFormData(test, f) ==
    [test EXCEPT !.id = f.id, !.type = f.type, !.name = f.name,
                 !.ied = f.ied.value, !.variant = f.variant.value,
                 !.ld = f.ld.value, !.ln = f.ln.value, !.lninst = f.lninst.value]

\* a handler that awaits the details of an ICD: the refs left, the first of
\* them being fetched, the map so far, and what goes on after the LDs are
\* loaded (stage "none": nothing; "afterIed", "afterVariant": the rest of
\* restoreLinkedSelectors for the values `vals`)
LoadTask(refs, allLds, stage, vals) ==
    [handler |-> "loadLds", refs |-> refs, allLds |-> allLds, stage |-> stage,
     vals |-> vals]

NoTask == [handler |-> "none"]

\* steps 3 to 5 of restoreLinkedSelectors
RestoreAfterVariant(f, vals) ==
    LET withLd == IF vals.ld # ""
                  THEN onLdChange([f EXCEPT !.ld = SetValue(@, vals.ld)])
                  ELSE f
        withLn == IF vals.ln # ""
                  THEN onLnChange([withLd EXCEPT !.ln = SetValue(@, vals.ln)])
                  ELSE withLd
    IN  IF vals.lninst # ""
        THEN [withLn EXCEPT !.lninst = SetValue(@, vals.lninst)]
        ELSE withLn

\* restoreLinkedSelectors from its step 2 on: the form, and the task left
\* awaiting when a fetch is needed
RestoreAfterIed(f, vals, patterns, cache, catalog) ==
    IF vals.variant = ""
    THEN [form |-> RestoreAfterVariant(f, vals), task |-> NoTask]
    ELSE LET r == onVariantChange([f EXCEPT !.variant = SetValue(@, vals.variant)], patterns)
         IN  IF r.load = ""
             THEN [form |-> RestoreAfterVariant(r.form, vals), task |-> NoTask]
             ELSE LET l == loadLdsForPattern(r.form, PatternById(patterns, r.load),
                                             cache, catalog)
                  IN  IF l.refs = <<>>
                      THEN [form |-> RestoreAfterVariant(l.form, vals), task |-> NoTask]
                      ELSE [form |-> l.form,
                            task |-> LoadTask(l.refs, l.allLds, "afterVariant", vals)]

\* restoreLinkedSelectors(iedValue, variantValue, ldValue, lnValue,
\* lninstValue)
restoreLinkedSelectors(f, vals, patterns, cache, catalog) ==
    IF vals.ied = ""
    THEN [form |-> f, task |-> NoTask]
    ELSE LET r == onIedChange([f EXCEPT !.ied = SetValue(@, vals.ied)], patterns)
         IN  IF r.load = ""
             THEN RestoreAfterIed(r.form, vals, patterns, cache, catalog)
             ELSE LET l == loadLdsForPattern(r.form, PatternById(patterns, r.load),
                                             cache, catalog)
                  IN  IF l.refs = <<>>
                      THEN RestoreAfterIed(l.form, vals, patterns, cache, catalog)
                      ELSE [form |-> l.form,
                            task |-> LoadTask(l.refs, l.allLds, "afterIed", vals)]

\* the values loadTest hands to restoreLinkedSelectors
LinkedValues(test) ==
    [ied |-> test.ied, variant |-> test.variant, ld |-> test.ld, ln |-> test.ln,
     lninst |-> test.lninst]

\* the editor as the script leaves it before initEditor()
BlankTest ==
    [id |-> <<>>, name |-> <<>>, type |-> "", ied |-> "", variant |-> "", ld |-> "",
     ln |-> "", lninst |-> ""]

\* the form of the page as loaded; edits: how many times the user has
\* changed an input since
BlankForm ==
    [id |-> <<>>, name |-> <<>>, type |-> "", ied |-> EmptySelect,
     variant |-> EmptySelect, ld |-> EmptySelect, ln |-> EmptySelect,
     lninst |-> EmptySelect, edits |-> 0]

\* loadTest(testId) for a stored test: what it leaves
loadTest(test, type, f, patterns, cache, catalog) ==
    LET loadedType == IF test.type # "" THEN test.type ELSE type
        shown      == [f EXCEPT !.type = loadedType, !.id = test.id, !.name = test.name]
        restored   == restoreLinkedSelectors(shown, LinkedValues(test), patterns, cache,
                                             catalog)
    IN  [currentTest  |-> [test EXCEPT !.type = loadedType],
         isEditing    |-> TRUE,
         selectedType |-> loadedType,
         form         |-> restored.form,
         task         |-> restored.task]

\* saveTest(): what it leaves, and whether it got past the validation
saveTest(st, test, f, origType, random) ==
    LET type     == f.type
        id       == IF ~Truthy(test.id) THEN NewTestId(st, type, random) ELSE test.id
        withId   == [f EXCEPT !.id = IF ~Truthy(test.id) THEN id ELSE @]
        data     == collectFormData([test EXCEPT !.id = id], withId)
        tests    == getSavedTests(st, type)
        index    == FindTestIndex(tests, data.id)
        written  == setSavedTests(st, type,
                                  IF index > 0 THEN [tests EXCEPT ![index] = data]
                                  ELSE Append(tests, data))
        moved    == origType # "" /\ origType # type
        cleaned  == IF moved
                    THEN setSavedTests(written, origType,
                            SelectSeq(getSavedTests(written, origType),
                                      LAMBDA t : t.id # data.id))
                    ELSE written
    IN  IF ~Truthy(data.id) \/ ~Truthy(data.name)
        THEN [saved |-> FALSE, stores |-> st, currentTest |-> data, form |-> withId,
              selectedType |-> type, originalType |-> origType]
        ELSE [saved |-> TRUE, stores |-> cleaned, currentTest |-> data, form |-> withId,
              selectedType |-> type,
              originalType |-> IF moved THEN type ELSE origType]

(***************************************************************************)
(* Specification of the test editor: the page is opened on a type and,     *)
(* optionally, on the id of a stored test; the reference lists and the     *)
(* ICD details arrive while the user works on the form.                    *)
(***************************************************************************)

\* most changes the user makes to the form
MaxEdits == 4

TestTypes == {"ru", "mvs"}

\* the texts generateRandomId() returns
RandomIds == {<<"A">>}

\* the answer of GET /data/ied/liste_ied.json
EditorPatterns ==
    <<[id |-> "P1", parent |-> "", icd_refs |-> <<"ICD_A">>],
      [id |-> "V1", parent |-> "P1", icd_refs |-> <<"ICD_A", "ICD_B">>],
      [id |-> "P2", parent |-> "", icd_refs |-> <<"ICD_B">>]>>

\* the answer of GET /data/icd/index.json
EditorCatalog ==
    <<[icd_id |-> "ICD_A", path |-> <<"a">>], [icd_id |-> "ICD_B", path |-> <<"b">>]>>

\* stored tests: two with the same id under different types, one more
TestA ==
    [id |-> <<"R", "U", "-", "A">>, name |-> <<"n">>, type |-> "ru", ied |-> "P1",
     variant |-> "", ld |-> "LDA", ln |-> "LNA", lninst |-> "1"]

TestB ==
    [id |-> <<"R", "U", "-", "A">>, name |-> <<"m">>, type |-> "mvs", ied |-> "P2",
     variant |-> "", ld |-> "LDB", ln |-> "LNB", lninst |-> "2"]

TestC ==
    [id |-> <<"M", "V", "S", "-", "B">>, name |-> <<"m">>, type |-> "mvs", ied |-> "P1",
     variant |-> "V1", ld |-> "LDB", ln |-> "LNB", lninst |-> "1"]

\* the contents of localStorage when the editor is opened
EditorStores ==
    {[ru |-> <<TestA>>, mvs |-> <<>>],
     [ru |-> <<TestA>>, mvs |-> <<TestB>>],
     [ru |-> <<TestA>>, mvs |-> <<TestC>>]}

\* the ids the URL or the user names
EditorIds == {TestA.id, TestC.id}

\* initEditor() for the URL parameters type and id (<<>>: no id): the state
\* when it returns.  loadReferenceLists() has sent its two requests and
\* awaits them
InitEditorFor(st, typeParam, idParam, random) ==
    LET newId   == NewTestId(st, typeParam, random)
        fresh   == [currentTest  |-> [BlankTest EXCEPT !.id = newId],
                    isEditing    |-> FALSE,
                    selectedType |-> typeParam,
                    form         |-> [BlankForm EXCEPT !.type = typeParam, !.id = newId],
                    task         |-> NoTask]
        tests   == getSavedTests(st, typeParam)
        index   == FindTestIndex(tests, idParam)
    IN  IF ~Truthy(idParam) \/ index = 0 THEN fresh
        ELSE loadTest(tests[index], typeParam, fresh.form, <<>>, {}, <<>>)

\* the ICD pages' own state is not in use on the editor page
EditorIdle ==
    /\ filterType = <<>>
    /\ filterManufacturer = <<>>
    /\ icdCards = <<>>
    /\ versionChoice = NoVersionChoice
    /\ pendingPatternForUpload = ""
    /\ modal = [kind |-> "none"]
    /\ filterLinked = ""
    /\ iedCards = <<>>
    /\ orphanIcds = <<>>
    /\ srvRefs = [id \in PatternIds |-> {}]
    /\ srvCatalog = <<>>
    /\ mValue = NULL
    /\ mPattern = NULL
    /\ mCalled = FALSE
    /\ mResult = FALSE
    /\ mFunction = "none"
    /\ NoIsaPage
    /\ NoTemplateManager

EditorFrame ==
    /\ UNCHANGED <<filterType, filterManufacturer, icdCards, versionChoice,
                   pendingPatternForUpload, modal, filterLinked, iedCards, orphanIcds,
                   srvRefs, srvCatalog>>
    /\ UNCHANGED matchVars
    /\ UNCHANGED <<isaVars, templateVars>>

InitEditor ==
    /\ page = "editor"
    /\ stores \in EditorStores
    /\ \E typeParam \in TestTypes, idParam \in EditorIds \cup {<<>>}, random \in RandomIds :
        LET e == InitEditorFor(stores, typeParam, idParam, random)
        IN  /\ currentTest = e.currentTest
            /\ isEditing = e.isEditing
            /\ selectedType = e.selectedType
            /\ originalType = e.selectedType
            /\ form = e.form
            /\ tasks = IF e.task = NoTask
                       THEN <<[handler |-> "loadReferenceLists",
                               pending |-> {"patterns", "catalog"}]>>
                       ELSE <<[handler |-> "loadReferenceLists",
                               pending |-> {"patterns", "catalog"}], e.task>>
    /\ iedPatterns = <<>>
    /\ icdCatalog = <<>>
    /\ icdDetailsCache = {}
    /\ EditorIdle

\* the rest of loadReferenceLists() once both requests are answered
ListsLoaded(f, patterns) ==
    [f EXCEPT !.ied = populateIedSelect(@, patterns),
              !.variant = resetSelect(@), !.ld = resetSelect(@),
              !.ln = resetSelect(@), !.lninst = resetSelect(@)]

\* one of the two requests of loadReferenceLists(), the first task, is
\* answered: the tasks and the form after it
ReferenceAnswered(which, patterns) ==
    IF tasks[1].pending = {which}
    THEN [tasks |-> Tail(tasks), form |-> ListsLoaded(form, patterns)]
    ELSE [tasks |-> [tasks EXCEPT ![1].pending = @ \ {which}], form |-> form]

AwaitsReference(which) ==
    /\ page = "editor"
    /\ tasks # <<>>
    /\ tasks[1].handler = "loadReferenceLists"
    /\ which \in tasks[1].pending

\* loadIedPatterns(): the answer is the list, an error status (the global
\* stays as it is) or an exception (the global is emptied)
PatternsAnswered ==
    /\ AwaitsReference("patterns")
    /\ \E answer \in {"ok", "status", "exception"} :
        /\ iedPatterns' = CASE answer = "ok" -> EditorPatterns
                            [] answer = "status" -> iedPatterns
                            [] OTHER -> <<>>
        /\ tasks' = ReferenceAnswered("patterns", iedPatterns').tasks
        /\ form' = ReferenceAnswered("patterns", iedPatterns').form
    /\ UNCHANGED <<stores, currentTest, isEditing, selectedType, originalType,
                   icdDetailsCache, icdCatalog>>
    /\ UNCHANGED page
    /\ EditorFrame

\* loadIcdCatalog(): likewise
CatalogAnswered ==
    /\ AwaitsReference("catalog")
    /\ \E answer \in {"ok", "status", "exception"} :
        /\ icdCatalog' = CASE answer = "ok" -> EditorCatalog
                           [] answer = "status" -> icdCatalog
                           [] OTHER -> <<>>
        /\ tasks' = ReferenceAnswered("catalog", iedPatterns).tasks
        /\ form' = ReferenceAnswered("catalog", iedPatterns).form
    /\ UNCHANGED <<stores, currentTest, isEditing, selectedType, originalType,
                   icdDetailsCache, iedPatterns>>
    /\ UNCHANGED page
    /\ EditorFrame

\* a change handler has run up to its first await: f is the form, l what
\* loadLdsForPattern awaits
AfterChange(f, l) ==
    /\ form.edits < MaxEdits
    /\ form' = f
    /\ IF l.refs = <<>>
       THEN UNCHANGED tasks
       ELSE /\ Len(tasks) < MaxTasks
            /\ tasks' = Append(tasks, LoadTask(l.refs, l.allLds, "none", <<>>))
    /\ UNCHANGED <<stores, currentTest, isEditing, selectedType, originalType,
                   icdDetailsCache, iedPatterns, icdCatalog>>
    /\ UNCHANGED page
    /\ EditorFrame

NoLoad(f) == [form |-> f, refs |-> <<>>, allLds |-> <<>>]

\* the user picks another option of the IED select: onIedChange()
UserSelectsIed ==
    /\ page = "editor"
    /\ \E v \in (Range(form.ied.options) \cup {""}) \ {form.ied.value} :
        LET r == onIedChange([form EXCEPT !.ied.value = v, !.edits = @ + 1], iedPatterns)
            l == IF r.load = "" THEN NoLoad(r.form)
                 ELSE loadLdsForPattern(r.form, PatternById(iedPatterns, r.load),
                                        icdDetailsCache, icdCatalog)
        IN  AfterChange(l.form, l)

\* the user picks another option of the variant select: onVariantChange()
UserSelectsVariant ==
    /\ page = "editor"
    /\ \E v \in (Range(form.variant.options) \cup {""}) \ {form.variant.value} :
        LET r == onVariantChange([form EXCEPT !.variant.value = v, !.edits = @ + 1],
                                 iedPatterns)
            l == IF r.load = "" THEN NoLoad(r.form)
                 ELSE loadLdsForPattern(r.form, PatternById(iedPatterns, r.load),
                                        icdDetailsCache, icdCatalog)
        IN  AfterChange(l.form, l)

\* the user picks another LD, LN class or instance: onLdChange(),
\* onLnChange(), no handler
UserSelectsLd ==
    /\ page = "editor"
    /\ \E v \in (Range(form.ld.options) \cup {""}) \ {form.ld.value} :
        AfterChange(onLdChange([form EXCEPT !.ld.value = v, !.edits = @ + 1]),
                    NoLoad(form))

UserSelectsLn ==
    /\ page = "editor"
    /\ \E v \in (Range(form.ln.options) \cup {""}) \ {form.ln.value} :
        AfterChange(onLnChange([form EXCEPT !.ln.value = v, !.edits = @ + 1]),
                    NoLoad(form))

UserSelectsLninst ==
    /\ page = "editor"
    /\ \E v \in (Range(form.lninst.options) \cup {""}) \ {form.lninst.value} :
        AfterChange([form EXCEPT !.lninst.value = v, !.edits = @ + 1], NoLoad(form))

\* the user clears the id input, or clears or fills the name input
UserTypes ==
    /\ page = "editor"
    /\ \/ /\ form.id # <<>>
          /\ AfterChange([form EXCEPT !.id = <<>>, !.edits = @ + 1], NoLoad(form))
       \/ \E name \in {<<>>, <<"n">>} \ {form.name} :
            AfterChange([form EXCEPT !.name = name, !.edits = @ + 1], NoLoad(form))

\* GET /data/icd/${path} of a loading handler is answered: loadIcdDetails
\* returns the details or null, the loop goes on to the next fetch or the
\* LD select is filled and, for loadTest, the restoring goes on
DetailsAnswered ==
    /\ page = "editor"
    /\ \E t \in 1..Len(tasks), ok \in BOOLEAN :
        /\ tasks[t].handler = "loadLds"
        /\ LET icdId    == Head(tasks[t].refs)
               cache    == IF ok THEN icdDetailsCache \cup {icdId} ELSE icdDetailsCache
               allLds   == IF ok THEN AddLds(tasks[t].allLds, icdId, IcdDetails(icdId), 1)
                           ELSE tasks[t].allLds
               progress == LdsProgress(Tail(tasks[t].refs), allLds, cache, icdCatalog)
               filled   == FinishLds(form, progress.allLds)
               after    == CASE tasks[t].stage = "afterIed" ->
                                    RestoreAfterIed(filled, tasks[t].vals, iedPatterns,
                                                    cache, icdCatalog)
                             [] tasks[t].stage = "afterVariant" ->
                                    [form |-> RestoreAfterVariant(filled, tasks[t].vals),
                                     task |-> NoTask]
                             [] OTHER -> [form |-> filled, task |-> NoTask]
           IN  /\ icdDetailsCache' = cache
               /\ IF progress.refs # <<>>
                  THEN /\ tasks' = [tasks EXCEPT ![t].refs = progress.refs,
                                                 ![t].allLds = progress.allLds]
                       /\ UNCHANGED form
                  ELSE /\ form' = after.form
                       /\ tasks' = IF after.task = NoTask THEN RemoveAt(tasks, t)
                                   ELSE [tasks EXCEPT ![t] = after.task]
    /\ UNCHANGED <<stores, currentTest, isEditing, selectedType, originalType,
                   iedPatterns, icdCatalog>>
    /\ UNCHANGED page
    /\ EditorFrame

\* the change listener of the type select, for the type the user picked
UserChangesType ==
    /\ page = "editor"
    /\ form.edits < MaxEdits
    /\ \E newType \in TestTypes \ {form.type}, random \in RandomIds :
        IF newType = selectedType
        THEN /\ form' = [form EXCEPT !.type = newType, !.edits = @ + 1]
             /\ UNCHANGED <<selectedType, currentTest>>
        ELSE LET newId == NewTestId(stores, newType, random)
             IN  /\ selectedType' = newType
                 /\ IF isEditing
                    THEN /\ currentTest' = [currentTest EXCEPT !.type = newType]
                         /\ form' = [form EXCEPT !.type = newType, !.edits = @ + 1]
                    ELSE /\ currentTest' = [currentTest EXCEPT !.type = newType,
                                                               !.id = newId]
                         /\ form' = [form EXCEPT !.type = newType, !.edits = @ + 1,
                                                 !.id = newId]
    /\ UNCHANGED <<stores, isEditing, originalType, icdDetailsCache, iedPatterns,
                   icdCatalog, tasks>>
    /\ UNCHANGED page
    /\ EditorFrame

\* saveTest(): after a save the browser leaves for the list of tests
SaveTest ==
    /\ page = "editor"
    /\ \E random \in RandomIds :
        LET r == saveTest(stores, currentTest, form, originalType, random)
        IN  /\ stores' = r.stores
            /\ currentTest' = r.currentTest
            /\ form' = r.form
            /\ selectedType' = r.selectedType
            /\ originalType' = r.originalType
            /\ page' = IF r.saved THEN "templates-essais" ELSE page
            /\ tasks' = IF r.saved THEN <<>> ELSE tasks
    /\ UNCHANGED <<isEditing, icdDetailsCache, iedPatterns, icdCatalog>>
    /\ EditorFrame

NextEditor ==
    \/ PatternsAnswered
    \/ CatalogAnswered
    \/ UserSelectsIed
    \/ UserSelectsVariant
    \/ UserSelectsLd
    \/ UserSelectsLn
    \/ UserSelectsLninst
    \/ UserTypes
    \/ DetailsAnswered
    \/ UserChangesType
    \/ SaveTest

SpecEditor == InitEditor /\ [][NextEditor]_vars

(***************************************************************************)
(* Specification of the handlers of the IED / ICD page as the browser runs *)
(* them: a handler runs up to its first await, where its request is in     *)
(* flight, and goes on when the API has answered; other handlers start     *)
(* in between.  A task is a started handler with the requests it has yet   *)
(* to be answered, the first of them in flight.                            *)
(***************************************************************************)

\* what no handler of this specification assigns
FlightFrame ==
    /\ UNCHANGED <<page, icdCatalog, srvCatalog, filterLinked, pendingPatternForUpload,
                   modal, filterType, filterManufacturer, icdCards, versionChoice>>
    /\ UNCHANGED matchVars
    /\ UNCHANGED pagesVars

InitFlight ==
    /\ page = "ied"
    /\ srvRefs \in [PatternIds -> SUBSET ApiIcdIds]
    /\ srvCatalog = ApiCatalog
    /\ iedPatterns = SrvPatterns(srvRefs)
    /\ icdCatalog = srvCatalog
    /\ filterLinked = ""
    /\ iedCards = renderIedCards(iedPatterns, icdCatalog, filterLinked)
    /\ orphanIcds = renderOrphanIcds(iedPatterns, icdCatalog)
    /\ pendingPatternForUpload = ""
    /\ modal = NoModal
    /\ filterType = <<>>
    /\ filterManufacturer = <<>>
    /\ icdCards = <<>>
    /\ versionChoice = NoVersionChoice
    /\ mValue = NULL
    /\ mPattern = NULL
    /\ mCalled = FALSE
    /\ mResult = FALSE
    /\ mFunction = "none"
    /\ tasks = <<>>
    /\ NoOtherPage

\* a handler starts: it sends its first request and awaits the answer
StartTask(handler, reqs) ==
    /\ page = "ied"
    /\ Len(tasks) < MaxTasks
    /\ reqs # <<>>
    /\ tasks' = Append(tasks, [handler |-> handler, reqs |-> reqs])
    /\ UNCHANGED <<srvRefs, iedPatterns, iedCards, orphanIcds>>
    /\ FlightFrame

\* handleDrop(event): an orphan card is dropped on the card of a pattern
StartHandleDrop ==
    \E o \in 1..Len(orphanIcds), c \in 1..Len(iedCards) :
        StartTask("handleDrop",
                  <<[op |-> "link", pattern |-> iedCards[c].id,
                     ref |-> orphanIcds[o].icd_id]>>)

\* unlinkIcd(patternId, icdId) from a row of a card, confirmed by the user
StartUnlinkIcd ==
    \E c \in 1..Len(iedCards) : \E r \in 1..Len(iedCards[c].linkedIcds) :
        StartTask("unlinkIcd",
                  <<[op |-> "unlink", pattern |-> iedCards[c].id,
                     ref |-> iedCards[c].linkedIcds[r].icd_id]>>)

\* moveIcd(encodedIcdId, currentPatternId) for a row of a card and an option
\* of the modal
StartMoveIcd ==
    \E c \in 1..Len(iedCards) : \E r \in 1..Len(iedCards[c].linkedIcds) :
        \E newPatternId \in MoveOptions(iedPatterns, iedCards[c].id) :
            StartTask("moveIcd",
                      moveIcdRequests(iedCards[c].linkedIcds[r].icd_id, iedCards[c].id,
                                      newPatternId))

\* assignOrphan(icdId) for an orphan card and an option of the modal
StartAssignOrphan ==
    \E o \in 1..Len(orphanIcds) : \E patternId \in OrphanOptions(iedPatterns) :
        StartTask("assignOrphan",
                  <<[op |-> "link", pattern |-> patternId, ref |-> orphanIcds[o].icd_id]>>)

\* saveAssignments(patternId) on the modal of a card after the user clicked
\* the checkboxes `toggled`
StartSaveAssignments ==
    \E c \in 1..Len(iedCards) :
        LET opened == AssignCheckboxes(iedPatterns, icdCatalog, iedCards[c].id)
        IN  \E toggled \in SUBSET (1..Len(opened)) :
            LET boxes == [k \in 1..Len(opened) |->
                            IF k \in toggled
                            THEN [opened[k] EXCEPT !.checked = ~@]
                            ELSE opened[k]]
            IN  StartTask("saveAssignments",
                          saveAssignmentRequests(boxes, iedPatterns, iedCards[c].id))

\* the API answers the request in flight of a task (ok: it applied it; not
\* ok: an error status or no answer at all); the handler sends its next
\* request, or reloads the patterns, renders and returns.  linkIcdToPattern
\* of handleDrop does not reload when the answer is not ok
ApiAnswers ==
    \E t \in 1..Len(tasks), ok \in BOOLEAN :
        LET r    == tasks[t].reqs[1]
            rest == Tail(tasks[t].reqs)
        IN  /\ FlightFrame
            /\ srvRefs' = IF ok THEN ApplyRequests(srvRefs, <<r>>, {1}, 1) ELSE srvRefs
            /\ IF rest # <<>>
               THEN /\ tasks' = [tasks EXCEPT ![t].reqs = rest]
                    /\ UNCHANGED <<iedPatterns, iedCards, orphanIcds>>
               ELSE /\ tasks' = RemoveAt(tasks, t)
                    /\ IF tasks[t].handler = "handleDrop" /\ ~ok
                       THEN UNCHANGED <<iedPatterns, iedCards, orphanIcds>>
                       ELSE /\ iedPatterns' = loadIedPatterns(TRUE, srvRefs')
                            /\ RefreshIedPage

NextFlight ==
    \/ StartHandleDrop
    \/ StartUnlinkIcd
    \/ StartMoveIcd
    \/ StartAssignOrphan
    \/ StartSaveAssignments
    \/ ApiAnswers

SpecFlight == InitFlight /\ [][NextFlight]_vars

(***************************************************************************)
(* Claims about matchPattern                                               *)
(***************************************************************************)

\* the expanded terms of the current expression (none for an absent one)
CurrentTerms == IF Truthy(mPattern) THEN expandPatternList(mPattern) ELSE <<>>

\* the current candidate matches some excluded term of the current expression
MatchesAnExclude ==
    \E t \in ExcludeTerms(CurrentTerms) : matchSinglePattern(StringOrEmpty(mValue), t)

\* the current candidate matches some include term of the current expression
MatchesAnInclude ==
    \E t \in IncludeTerms(CurrentTerms) : matchSinglePattern(StringOrEmpty(mValue), t)

\* a term that is plain text: not empty, no separator, no wildcard, no range
IsLiteralTerm(t) ==
    /\ t # <<>>
    /\ \A k \in 1..Len(t) : t[k] \notin Separators \cup {"*", "?"}
    /\ expandRangePattern(t) = <<t>>

\* the current expression is "*,!X" for a literal term X
IsStarExceptLiteral ==
    /\ Truthy(mPattern)
    /\ Len(mPattern) > 3
    /\ SubSeq(mPattern, 1, 3) = <<"*", ",", "!">>
    /\ IsLiteralTerm(SubSeq(mPattern, 4, Len(mPattern)))

\* the X of "*,!X"
ExceptedLiteral == SubSeq(mPattern, 4, Len(mPattern))

EqualIgnoringCase(a, b) ==
    /\ Len(a) = Len(b)
    /\ \A k \in 1..Len(a) : Canonicalize(a[k]) = Canonicalize(b[k])

\* C8 as stated: a candidate that matches an excluded term is rejected, and
\* for "*,!X" the candidate X is rejected while every candidate different
\* from X is accepted.
C8_ExclusionWins_AnyOtherCandidate ==
    mCalled =>
        /\ MatchesAnExclude => ~mResult
        /\ IsStarExceptLiteral =>
               (mResult <=> StringOrEmpty(mValue) # ExceptedLiteral)

\* C8 amended: a candidate that matches an excluded term is rejected, and
\* for "*,!X" with X a literal term the candidates rejected are exactly
\* those equal to X ignoring case; every other candidate is accepted.
C8_ExclusionWins_IgnoringCase ==
    mCalled =>
        /\ MatchesAnExclude => ~mResult
        /\ IsStarExceptLiteral =>
               (mResult <=> ~EqualIgnoringCase(StringOrEmpty(mValue), ExceptedLiteral))

\* C8 witness: "*,!X" has been evaluated for the candidate "x", which differs
\* from X by case only, and was rejected.
C8_Witness ==
    /\ mCalled
    /\ mPattern = <<"*", ",", "!", "X">>
    /\ mValue = <<"x">>
    /\ ~mResult

\* C9: an expression that is empty, absent or exactly "*" accepts every
\* candidate, the empty string and null included.
C9_EmptyOrStarAcceptsAll ==
    (mCalled /\ (mPattern = NULL \/ mPattern = <<>> \/ mPattern = <<"*">>)) => mResult

\* C9 witness: "*" has been evaluated for a null candidate and accepted it.
C9_Witness ==
    /\ mCalled
    /\ mPattern = <<"*">>
    /\ mValue = NULL
    /\ mResult

\* C10: when the candidate matches no excluded term, the result is true if
\* the expression has no include term, and otherwise true exactly when the
\* candidate matches at least one include term.
C10_IncludesDecideWhenNotExcluded ==
    (mCalled /\ ~MatchesAnExclude) =>
        (mResult <=> (IncludeTerms(CurrentTerms) = {} \/ MatchesAnInclude))

\* C10 witness: an expression made of one exclusion only has been evaluated
\* for a candidate it does not exclude, and accepted it.
C10_Witness ==
    /\ mCalled
    /\ mPattern = <<"!", "X">>
    /\ mValue = <<"1">>
    /\ IncludeTerms(CurrentTerms) = {}
    /\ ~MatchesAnExclude
    /\ mResult

(***************************************************************************)
(* Claims about the linked and orphan ICD of the patterns                  *)
(***************************************************************************)

\* the icd_refs of all the patterns of the page
AllRefs == UNION {iedPatterns[k].icd_refs : k \in 1..Len(iedPatterns)}

\* r holds, in catalog order, exactly the catalog records at indexes `kept`
KeepsExactly(r, catalog, kept) ==
    /\ Len(r) = Cardinality(kept)
    /\ \A k \in kept : r[Cardinality({j \in kept : j <= k})] = catalog[k]

\* the records linked to pattern number k of the page
LinkedOf(k) == getIcdsForPattern(iedPatterns[k], icdCatalog)

\* the records linked to some pattern of the page
AllLinked == UNION {Range(LinkedOf(k)) : k \in 1..Len(iedPatterns)}

\* a catalog record of identifier id in one version
RecordOf(id) == [icd_id |-> id, ied_type |-> <<"A">>, manufacturer |-> <<"C">>,
                 version |-> <<"V", "1">>, filename |-> id, path |-> id]

C4_OrphansAndLinkedPartitionCatalog ==
    LET orphans == Range(getOrphanIcds(iedPatterns, icdCatalog))
    IN  /\ orphans \cup AllLinked = Range(icdCatalog)
        /\ orphans \cap AllLinked = {}

\* C4 witness: the page shows a card with a linked record and an orphan
\* whose icd_id is contained in a ref of a pattern.
C4_Witness ==
    /\ \E c \in 1..Len(iedCards) : Len(iedCards[c].linkedIcds) > 0
    /\ \E o \in 1..Len(orphanIcds) : \E ref \in AllRefs :
           ref # orphanIcds[o].icd_id /\ Includes(ref, orphanIcds[o].icd_id)

\* C5: the result of getIcdsForPatternWithVariants never holds two records
\* with the same icd_id, whatever the catalog and wherever the id is linked.
C5_NoTwoRecordsWithSameIcdId ==
    \A k \in 1..Len(iedPatterns) :
        LET r == getIcdsForPatternWithVariants(iedPatterns[k], iedPatterns, icdCatalog)
        IN  \A i, j \in 1..Len(r) : r[i].icd_id = r[j].icd_id => i = j

ChangedPatterns == {p \in PatternIds : srvRefs'[p] # srvRefs[p]}

\* the ICD path of the link modal on screen
ModalIcdPath == IcdPath(modal.iedType, modal.manufacturer)

\* outside the link modal a handler changes the patterns the user named:
\* the pattern of the assign modal, the old and the selected new pattern of
\* the move modal, the selected pattern of the orphan modal, the pattern of
\* the card used or the target of the direct import
OnlyNamedPatternsChangeOutsideLinkModal ==
    /\ modal.kind = "none" /\ page = "library" => ChangedPatterns = {}
    /\ modal.kind = "none" /\ page = "ied" =>
          \E c \in 0..Len(iedCards) :
              ChangedPatterns \subseteq
                  IF c = 0 THEN {pendingPatternForUpload} ELSE {iedCards[c].id}
    /\ modal.kind = "assign" => ChangedPatterns \subseteq {modal.patternId}
    /\ modal.kind = "move" =>
          \E q \in modal.options :
              ChangedPatterns \subseteq {modal.currentPatternId, q}
    /\ modal.kind = "orphan" =>
          \E q \in modal.options \cup {""} : ChangedPatterns \subseteq {q}

\* C7 as stated: a handler changes the icd_refs of the patterns the user
\* named only; saving the link modal changes no pattern whose checkbox the
\* user did not use, neither a variant of a checked parent nor the parent
\* of a checked variant.
C7_OnlyNamedPatternsChange ==
    [][/\ OnlyNamedPatternsChangeOutsideLinkModal
       /\ modal.kind = "link" => ChangedPatterns \subseteq modal.clicked]_vars

\* C7: a handler changes the icd_refs of the patterns the user named only,
\* except that saving the link modal also links the ICD to the variants of
\* a parent whose checkbox the user used; it never changes a parent because
\* of its variant, and never unlinks a pattern the user did not name.
C7_OnlyNamedPatternsAndVariantsOfCheckedParentChange ==
    [][/\ OnlyNamedPatternsChangeOutsideLinkModal
       /\ modal.kind = "link" =>
             \A p \in ChangedPatterns :
                 \/ p \in modal.clicked
                 \/ /\ ParentOf(p) \in modal.clicked
                    /\ srvRefs'[p] = srvRefs[p] \cup {ModalIcdPath}]_vars

\* C7 witness: a save of the link modal has linked the ICD to the variant V1
\* although the user used the checkbox of its parent P1 and not that of V1
\* (the save stopped at a later request, so the modal is still on screen).
C7_Witness ==
    /\ modal.kind = "link"
    /\ "P1" \in modal.clicked
    /\ "V1" \notin modal.clicked
    /\ Len(iedPatterns) > 0
    /\ ~IsLinkedByPath(iedPatterns, "V1", ModalIcdPath)
    /\ ModalIcdPath \in srvRefs["V1"]

(***************************************************************************)
(* Claims about the grouping of the catalog                                *)
(***************************************************************************)

\* the catalog entries the cards on screen were built from
ShownEntries == getFilteredCatalog(icdCatalog, filterType, filterManufacturer)

\* entry e has a version entry in card c
InCard(e, c) == \E k \in 1..Len(c.versions) : c.versions[k] = VersionOf(e)

\* the entries of ShownEntries with the identity of card c, in input order
EntriesOfIdentity(c) ==
    SelectSeq(ShownEntries, LAMBDA e :
        e.ied_type = c.ied_type /\ e.manufacturer = c.manufacturer)

\* C1: every card's active_version is the version of the last record of its
\* group in input order, and getActiveVersion returns that record.
C1_ActiveVersionIsLastEncountered ==
    \A k \in 1..Len(icdCards) :
        LET c    == icdCards[k]
            last == c.versions[Len(c.versions)]
        IN  /\ c.active_version = last.version
            /\ getActiveVersion(c) = last

\* C2: two shown records are in the same card if and only if their ied_type
\* values are equal and their manufacturer values are equal.
C2_SameCardIffSameTypeAndManufacturer ==
    \A i, j \in 1..Len(ShownEntries) :
        LET a == ShownEntries[i]
            b == ShownEntries[j]
        IN  (\E k \in 1..Len(icdCards) : InCard(a, icdCards[k]) /\ InCard(b, icdCards[k]))
                <=> (a.ied_type = b.ied_type /\ a.manufacturer = b.manufacturer)

(***************************************************************************)
(* Claims about expandRangePattern                                         *)
(***************************************************************************)

\* the text is an integer as `${i}` writes it: digits without leading
\* zeros, with a '-' in front of a negative one
IsIntegerText(t) ==
    /\ t # <<>>
    /\ LET d == IF t[1] = "-" THEN Tail(t) ELSE t
       IN  /\ d # <<>>
           /\ \A k \in 1..Len(d) : IsDigit(d[k])
           /\ Len(d) > 1 => d[1] # "0"
           /\ t[1] = "-" => d # <<"0">>

IntegerOf(t) == IF t[1] = "-" THEN 0 - Number(Tail(t)) ELSE Number(t)

IntegerText(n) == IF n < 0 THEN <<"-">> \o NumToString(0 - n) ELSE NumToString(n)

\* the literals {prefix}{i}{suffix} for i from a to b, in that order
RangeLiterals(prefix, a, b, suffix) ==
    IF a <= b
    THEN [k \in 1..(b - a + 1) |-> prefix \o IntegerText(a + k - 1) \o suffix]
    ELSE [k \in 1..(a - b + 1) |-> prefix \o IntegerText(a - k + 1) \o suffix]

\* the ways of reading the text as {prefix}{a}-{b}{suffix}: a is the text
\* from i to j - 1, the '-' is at j, b is the text from j + 1 to k
RangeReadings(s) ==
    {r \in (1..Len(s)) \X (1..Len(s)) \X (1..Len(s)) :
        /\ r[1] < r[2] /\ r[2] < r[3]
        /\ s[r[2]] = "-"
        /\ IsIntegerText(SubSeq(s, r[1], r[2] - 1))
        /\ IsIntegerText(SubSeq(s, r[2] + 1, r[3]))}

ReadingPrefix(s, r) == SubSeq(s, 1, r[1] - 1)
ReadingStart(s, r) == IntegerOf(SubSeq(s, r[1], r[2] - 1))
ReadingEnd(s, r) == IntegerOf(SubSeq(s, r[2] + 1, r[3]))
ReadingSuffix(s, r) == SubSeq(s, r[3] + 1, Len(s))

IsRangeOfReading(result, s, r) ==
    /\ result = RangeLiterals(ReadingPrefix(s, r), ReadingStart(s, r),
                              ReadingEnd(s, r), ReadingSuffix(s, r))
    /\ Len(result) = (IF ReadingStart(s, r) <= ReadingEnd(s, r)
                      THEN ReadingEnd(s, r) - ReadingStart(s, r)
                      ELSE ReadingStart(s, r) - ReadingEnd(s, r)) + 1
    /\ Cardinality(Range(result)) = Len(result)

\* the reading is the one the regular expression takes: a and b are not
\* negative, no digit stands right before a or right after b, and no digit
\* run followed by '-' and a digit starts before a
IsUnambiguousReading(s, r) ==
    /\ s[r[1]] # "-"
    /\ s[r[2] + 1] # "-"
    /\ r[1] > 1 => ~IsDigit(s[r[1] - 1])
    /\ r[3] < Len(s) => ~IsDigit(s[r[3] + 1])
    /\ \A p \in RangeStarts(s) : p >= r[1]

RECURSIVE GlobAccepts(_, _, _)
GlobAccepts(p, v, unmatched) ==
    IF p = <<>> THEN v = <<>>
    ELSE IF Head(p) = "*"
         THEN \E n \in 0..Len(v) :
                /\ \A k \in 1..n : v[k] \notin unmatched
                /\ GlobAccepts(Tail(p), SubSeq(v, n + 1, Len(v)), unmatched)
    ELSE /\ v # <<>>
         /\ IF Head(p) = "?" THEN Head(v) \notin unmatched
            ELSE Canonicalize(Head(p)) = Canonicalize(Head(v))
         /\ GlobAccepts(Tail(p), Tail(v), unmatched)

SingleCallReturned == mCalled /\ mFunction = "matchSinglePattern" /\ mValue # NULL

PDIS == <<"P", "D", "I", "S">>

\* the examples: "PDIS1" matches "pdis*"; "PDIS*" accepts PDIS, PDIS1 and
\* PDIS22 and rejects XPDIS1; "PDIS?" accepts PDIS1, rejects PDIS and PDIS12
SingleExamplesHold ==
    /\ (mPattern = <<"p", "d", "i", "s", "*">> /\ mValue = PDIS \o <<"1">>) => mResult
    /\ (mPattern = PDIS \o <<"*">> /\ mValue \in {PDIS, PDIS \o <<"1">>, PDIS \o <<"2", "2">>})
            => mResult
    /\ (mPattern = PDIS \o <<"*">> /\ mValue = <<"X">> \o PDIS \o <<"1">>) => ~mResult
    /\ (mPattern = PDIS \o <<"?">> /\ mValue = PDIS \o <<"1">>) => mResult
    /\ (mPattern = PDIS \o <<"?">> /\ mValue \in {PDIS, PDIS \o <<"1", "2">>}) => ~mResult

WrittenTerms ==
    LET raw == SplitTokens(mPattern, 1, <<>>)
    IN  {[text    |-> IF raw[k][1] \in {"!", "-"} THEN Tail(raw[k]) ELSE raw[k],
          exclude |-> raw[k][1] \in {"!", "-"}] : k \in 1..Len(raw)}

\* a term without wildcard that is not a numeric range; it may be empty
IsPlainText(t) ==
    /\ \A k \in 1..Len(t) : t[k] \notin {"*", "?"}
    /\ RangeStarts(t) = {}

\* the verdict on the current candidate when each written term matches
\* exactly the candidates equal to its text ignoring case
LiteralVerdict ==
    LET v        == StringOrEmpty(mValue)
        excluded == \E t \in WrittenTerms : t.exclude /\ EqualIgnoringCase(v, t.text)
        included == \E t \in WrittenTerms : ~t.exclude /\ EqualIgnoringCase(v, t.text)
    IN  /\ ~excluded
        /\ (\A t \in WrittenTerms : t.exclude) \/ included

\* C13: an expression whose terms have no wildcard and are no numeric range
\* (operators of regular expressions and the empty term of a bare "!" or
\* "-" included) is matched literally: each term matches a candidate if and
\* only if the candidate equals the term's text ignoring case
C13_MalformedDegradesToLiteral ==
    (/\ mCalled
     /\ mFunction = "matchPattern"
     /\ Truthy(mPattern)
     /\ \A t \in WrittenTerms : IsPlainText(t.text))
        => mResult = LiteralVerdict

(***************************************************************************)
(* Claims about the active version of a card                               *)
(***************************************************************************)

\* the cards on screen for the type and manufacturer of the last choice
ChosenCards ==
    {c \in 1..Len(icdCards) :
        /\ icdCards[c].ied_type = versionChoice.ied_type
        /\ icdCards[c].manufacturer = versionChoice.manufacturer}

\* C14: once setActiveVersion(iedType, manufacturer, v) has been called with
\* a version v of the card, the card put on screen by the render that
\* follows, and by every later render, has v as its active version
C14_ChosenVersionStaysActive ==
    versionChoice.chosen =>
        \A c \in ChosenCards : getActiveVersion(icdCards[c]).version = versionChoice.version

\* the entries of the card under call whose version is its active_version
MatchingEntries ==
    {k \in 1..Len(mValue.versions) : mValue.versions[k].version = mValue.active_version}

ActiveCallReturned == mCalled /\ mFunction = "getActiveVersion"

\* C15: getActiveVersion(card) returns the entry of card.versions whose
\* version is card.active_version when there is one (the first of them),
\* and otherwise the last entry of card.versions
C15_MatchingEntryElseLast ==
    ActiveCallReturned =>
        /\ MatchingEntries # {} =>
                /\ \E k \in MatchingEntries : mResult = mValue.versions[k]
                /\ mResult.version = mValue.active_version
        /\ (MatchingEntries = {} /\ Len(mValue.versions) > 0) =>
                mResult = mValue.versions[Len(mValue.versions)]

\* a card whose active_version is none of its two versions has been asked
\* for its active version and the last entry came back
C15_Witness ==
    /\ ActiveCallReturned
    /\ MatchingEntries = {}
    /\ Len(mValue.versions) >= 2
    /\ mValue.versions[1] # mValue.versions[Len(mValue.versions)]
    /\ mResult = mValue.versions[Len(mValue.versions)]

(***************************************************************************)
(* Claims about regrouping the cards of groupByIcdId                       *)
(***************************************************************************)

\* the concatenation of the versions lists of the cards
VersionsOfCards(cards) ==
    Flatten([c \in 1..Len(cards) |-> cards[c].versions])

\* the same, each version entry completed with the icd_id, ied_type and
\* manufacturer of its card
RecordsOfCards(cards) ==
    Flatten([c \in 1..Len(cards) |->
        [k \in 1..Len(cards[c].versions) |->
            [icd_id       |-> cards[c].icd_id,
             ied_type     |-> cards[c].ied_type,
             manufacturer |-> cards[c].manufacturer,
             version      |-> cards[c].versions[k].version,
             filename     |-> cards[c].versions[k].filename,
             path         |-> cards[c].versions[k].path]]])

\* C16 as stated: groupByIcdId applied to the concatenation of the versions
\* lists of the cards of groupByIcdId(R) gives the same set of cards
C16_RegroupingVersionsGivesSameCards ==
    Range(groupByIcdId(VersionsOfCards(icdCards))) = Range(icdCards)

\* C16 amended: groupByIcdId applied to the version entries of the cards,
\* each completed with the icd_id, ied_type and manufacturer of its card,
\* gives the same cards
C16_RegroupingCompletedVersionsGivesSameCards ==
    Range(groupByIcdId(RecordsOfCards(icdCards))) = Range(icdCards)

\* two cards are on screen, one of them with two versions
C16_Witness ==
    /\ Len(icdCards) = 2
    /\ \E c \in 1..2 :
        /\ Len(icdCards[c].versions) = 2
        /\ icdCards[c].versions[1].version # icdCards[c].versions[2].version
    /\ groupByIcdId(RecordsOfCards(icdCards)) = icdCards

(***************************************************************************)
(* Claims about the records kept by groupByIcdId                           *)
(***************************************************************************)

\* the input records that the assignment f of records to cards puts in
\* card c, as positions of ShownEntries
AssignedTo(f, c) == {i \in 1..Len(ShownEntries) : f[i] = c}

\* the versions list of card c is made of the records f puts in c, one
\* entry per record, in input order
HoldsAssigned(f, c) ==
    LET S  == AssignedTo(f, c)
        vs == icdCards[c].versions
    IN  /\ Len(vs) = Cardinality(S)
        /\ \A k \in 1..Len(vs) :
            vs[k] = VersionOf(ShownEntries[CHOOSE i \in S : Cardinality({j \in S : j <= i}) = k])

\* C17: every input record is in the versions list of exactly one card,
\* exactly once, the records of a card are in input order, and there are
\* as many version entries in all as input records
C17_EveryRecordOnceInOneCard ==
    /\ \E f \in [1..Len(ShownEntries) -> 1..Len(icdCards)] :
            \A c \in 1..Len(icdCards) : HoldsAssigned(f, c)
    /\ Len(VersionsOfCards(icdCards)) = Len(ShownEntries)

\* three records have been grouped into two cards, the two records of one
\* card being two versions
C17_Witness ==
    /\ Len(ShownEntries) = 3
    /\ Len(icdCards) = 2
    /\ \E c \in 1..2 :
        /\ Len(icdCards[c].versions) = 2
        /\ icdCards[c].versions[1] # icdCards[c].versions[2]

(***************************************************************************)
(* Claims about the link and unlink calls of the API                       *)
(***************************************************************************)

\* the last call was unlinkIcdApi(p, a) and the call right before it was
\* linkIcd(p, a), p being a pattern of the store
UnlinkAfterLink ==
    /\ mFunction = "unlinkIcdApi"
    /\ mPattern.fn = "linkIcd"
    /\ mPattern.patternId = mValue.patternId
    /\ mPattern.icdId = mValue.icdId
    /\ mValue.patternId \in PatternIds

LastCallFound(linked) ==
    /\ mValue.patternId \in PatternIds
    /\ (mValue.icdId \in mValue.before[mValue.patternId]) = linked

C20_UnknownPatternIsSignalled ==
    (mCalled /\ mValue.patternId = UnknownPatternId) =>
        /\ srvRefs = mValue.before
        /\ mResult.thrown \/ mResult.toast = "error"

(***************************************************************************)
(* Claims about requests in flight                                         *)
(***************************************************************************)

\* the request in flight of task t
InFlight(t) == tasks[t].reqs[1]

\* C21: at any time at most one link or unlink request for a given pattern
\* is in flight
C21_OneRequestInFlightPerPattern ==
    \A t, u \in 1..Len(tasks) : t # u => InFlight(t).pattern # InFlight(u).pattern

(***************************************************************************)
(* Claims about matchHierarchy                                             *)
(***************************************************************************)

HierarchyCallReturned == mCalled /\ mFunction = "matchHierarchy"

\* the expression of the filter for a level is absent, empty or "*"
LevelIsOpen(level) == Get(mPattern, PatternOf(level)) \in {NULL, <<>>, <<"*">>}

\* the level is satisfied: its expression is open, or matchPattern holds for
\* the item's name at the level
LevelHolds(level) ==
    \/ LevelIsOpen(level)
    \/ matchPattern(Get(mValue, level), Get(mPattern, PatternOf(level)))

\* C22: matchHierarchy is true exactly when matchPattern holds for each of
\* the four pairs (ied, iedPattern), (ld, ldPattern), (ln, lnPattern),
\* (lninst, lninstPattern); a level whose expression is absent, empty or "*"
\* is satisfied by every value, a missing one included
C22_EveryLevelMustMatch ==
    HierarchyCallReturned =>
        /\ mResult = (\A level \in HierarchyLevels : LevelHolds(level))
        /\ \A level \in HierarchyLevels :
              LevelIsOpen(level) =>
                  matchPattern(Get(mValue, level), Get(mPattern, PatternOf(level)))

\* a call that is true with a restricting level matched, an open level whose
\* name is missing from the item, and a level with no expression at all
C22_Witness ==
    /\ HierarchyCallReturned
    /\ mResult = TRUE
    /\ Get(mPattern, "iedPattern") = <<"X">>
    /\ Get(mValue, "ied") = <<"X">>
    /\ Get(mPattern, "lnPattern") = <<"*">>
    /\ Get(mValue, "ln") = NULL
    /\ Get(mPattern, "ldPattern") = NULL
    /\ Get(mValue, "ld") = <<"Y">>

\* a call that only the last level makes false
C22_WitnessRejected ==
    /\ HierarchyCallReturned
    /\ mResult = FALSE
    /\ \A level \in HierarchyLevels \ {"lninst"} : LevelHolds(level)
    /\ ~LevelIsOpen("ied")

(***************************************************************************)
(* Claims about moving an ICD                                              *)
(***************************************************************************)

\* moveIcd ran to its end with a new pattern selected
MoveCompleted == MoveIcd /\ modal' = NoModal

\* C23: once moveIcd with a selected new pattern has completed, the ICD is in
\* the icd_refs of the old pattern or of the new pattern, whatever the
\* outcome of the unlink request and of the link request
C23_MoveKeepsTheLink ==
    [][MoveCompleted =>
          \E p \in {modal.currentPatternId} \cup modal.options :
              modal.icdId \in srvRefs'[p]]_vars

(***************************************************************************)
(* Claims about the visibility of the ICDs on the IED / ICD page           *)
(***************************************************************************)

\* the ICD is a card of the orphan panel
InOrphanPanel(icd) == icd \in Range(orphanIcds)

\* the ICD is a row of the ICD list of a rendered IED card
InSomeCard(icd) == \E c \in 1..Len(iedCards) : icd \in Range(iedCards[c].linkedIcds)

\* C24: with no search or status filter active, every ICD of the catalog is
\* listed in the orphan panel or in the ICD list of at least one rendered
\* IED card, also when it is referenced only by a variant pattern
C24_EveryIcdIsVisible ==
    (page = "ied" /\ filterLinked = "") =>
        \A k \in 1..Len(icdCatalog) :
            InOrphanPanel(icdCatalog[k]) \/ InSomeCard(icdCatalog[k])

(***************************************************************************)
(* Claims about the ISA page                                               *)
(***************************************************************************)

\* the file is a card of the orphan panel
IsOrphanFile(file) == file \in Range(isaView.orphans)

\* the file is a row of a rendered type card
ShownUnderAType(file) ==
    \E c \in 1..Len(isaView.cards) : file \in Range(isaView.cards[c].files)

\* C25: every ISA file of the catalog is either an orphan or returned by
\* getFilesForType for at least one type of isaTypes, never both; so the
\* linked count of updateStats is the number of files shown under at least
\* one type card
C25_OrphanOrUnderAType ==
    page = "isa" =>
        /\ \A k \in 1..Len(isaCatalog) :
              IsOrphanFile(isaCatalog[k]) # ShownUnderAType(isaCatalog[k])
        /\ isaView.linkedCount =
              Cardinality({k \in 1..Len(isaCatalog) : ShownUnderAType(isaCatalog[k])})

\* C26: every file of an upload batch is sent with the type that was pending
\* when the change event of the batch fired, whatever is triggered and
\* whichever other batch starts or ends meanwhile
C26_BatchKeepsItsType ==
    \A t \in 1..Len(tasks) :
        tasks[t].handler = "isaUpload" =>
            \A k \in 1..Len(tasks[t].sent) : tasks[t].sent[k] = tasks[t].typeAtChange

(***************************************************************************)
(* Claims about TemplateManager                                            *)
(***************************************************************************)

\* the call had to throw: createTemplate for an id in the array, the other
\* methods for an id not in it
MustThrow ==
    IF mFunction = "createTemplate" THEN mPattern.present ELSE ~mPattern.present

\* C30: the ids in TemplateManager.templates stay pairwise distinct under
\* createTemplate, updateTemplate, deleteTemplate and duplicateTemplate; a
\* createTemplate with an id already present, and an updateTemplate,
\* deleteTemplate or duplicateTemplate on an id not present, throw and leave
\* the list unchanged
C30_IdsStayDistinct ==
    page = "templates" =>
        /\ Cardinality(Range(IdsOf(templates, objects))) = Len(templates)
        /\ (mCalled /\ MustThrow) =>
              (mResult = TRUE /\ mValue = TRUE)

(***************************************************************************)
(* Claims about the test editor                                            *)
(***************************************************************************)

\* the test stored under a type with an id (there is one)
StoredTest(st, type, id) == getSavedTests(st, type)[FindTestIndex(getSavedTests(st, type), id)]

IsStored(st, type, id) == FindTestIndex(getSavedTests(st, type), id) > 0

\* this step is a saveTest() that got past its validation and wrote
Saved == page = "editor" /\ page' = "templates-essais"

\* C27: the editor opened on a stored test and saved without any change by
\* the user stores a test with the ied, variant, ld, ln and lninst that
\* were stored before, whenever the reference lists arrive
C27_UntouchedSaveKeepsSelectors ==
    [][(Saved /\ isEditing /\ form.edits = 0 /\ IsStored(stores, form.type, currentTest.id))
          => /\ IsStored(stores', form.type, currentTest.id)
             /\ LinkedValues(StoredTest(stores', form.type, currentTest.id))
                   = LinkedValues(StoredTest(stores, form.type, currentTest.id))]_vars

\* the pattern whose LDs the form is to offer: the variant picked, else the
\* IED picked
SelectedPattern == IF form.variant.value # "" THEN form.variant.value ELSE form.ied.value

\* the names of the LDs of the ICDs a pattern refers to
LdsOfPattern(patternId) ==
    UNION {{IcdDetails(icdId)[k].name : k \in 1..Len(IcdDetails(icdId))} :
              icdId \in Range(PatternById(iedPatterns, patternId).icd_refs)}

\* no handler awaits an answer
AllLoadsCompleted == page = "editor" /\ tasks = <<>>

\* C28: once every pending load has completed, the LD select offers no LD
\* but those of the ICDs of the pattern now selected, and all of them when
\* the details of those ICDs were received, also when another pattern was
\* picked before and its details arrive late
C28_LdsAreThoseOfTheSelectedPattern ==
    (AllLoadsCompleted /\ HasPattern(iedPatterns, SelectedPattern)) =>
        /\ Range(form.ld.options) \subseteq LdsOfPattern(SelectedPattern)
        /\ Range(PatternById(iedPatterns, SelectedPattern).icd_refs) \subseteq icdDetailsCache
              => Range(form.ld.options) = LdsOfPattern(SelectedPattern)

\* this step is a saveTest() of an edited test whose type select was changed
SavedUnderAnotherType == Saved /\ isEditing /\ originalType # form.type

\* C29: a saveTest() of an edited test whose type was changed leaves a test
\* with its id under the new type and none under the old one, and every
\* test stored under the new type before is still stored there; no store
\* changes unless the test saved has an id and a name
C29_SaveMovesWithoutLoss ==
    [][/\ SavedUnderAnotherType =>
            /\ IsStored(stores', form.type, currentTest'.id)
            /\ ~IsStored(stores', originalType, currentTest'.id)
            /\ Range(getSavedTests(stores, form.type))
                  \subseteq Range(getSavedTests(stores', form.type))
       /\ stores' # stores => Truthy(currentTest'.id) /\ Truthy(currentTest'.name)]_vars

====
